---------------------------- MODULE Spec2Model ----------------------------
(***************************************************************************)
(* obj-simplify: the document model (objectfile), the line parser, the     *)
(* Duplicates processor, the Merge processor and the main pipeline.        *)
(*                                                                         *)
(* Pointers are modelled by stable identities: a *GeometryValue is the     *)
(* position of the value in the heap sequence values[t] (the order of      *)
(* allocation by Geometry.ReadValue), nil is 0.  Geometry[t] is the slice  *)
(* of pointers of channel t.  Floating point components are integers on a  *)
(* grid of half an epsilon.                                                *)
(***************************************************************************)
EXTENDS Integers, Sequences, FiniteSets, TLC

VARIABLES
    pc,             \* position of main(): parse, duplicates, merge, write, done, fatal
    StartParams,    \* the configuration record (main.go startParams)
    values,         \* heap of GeometryValue objects per channel, by identity
    Geometry,       \* OBJ.Geometry: per channel the slice of pointers
    Objects,        \* OBJ.Objects
    parser,         \* locals of parse()
    input,          \* the lines of the input file not yet scanned
    engine,         \* locals of Duplicates.Execute and of its goroutines
    output          \* the output file

vars == <<pc, StartParams, values, Geometry, Objects, parser, input, engine, output>>

-----------------------------------------------------------------------------
(* objectfile.Type *)

Vertex == "v"
Normal == "vn"
UV == "vt"
Param == "vp"
Face == "f"
Line == "l"
Point == "p"
ChildObject == "o"
ChildGroup == "g"

\* the order every loop of the program walks the channels in
GeometryTypes == <<Vertex, Normal, UV, Param>>

Channels == {Vertex, Normal, UV, Param}

-----------------------------------------------------------------------------
(* bounds of the model and program constants *)

\* largest number of values of the Vertex channel in a generated document
MaxVals == 3

\* StartParams.Epsilon (default 1e-6), in grid units: one unit is half an epsilon
DefaultEpsilon == 2

\* StartParams.Workers, the default on a machine with one core
DefaultWorkers == 4

-----------------------------------------------------------------------------
(* helpers on sequences *)

Range(s) == {s[i] : i \in DOMAIN s}

Abs(n) == IF n < 0 THEN -n ELSE n

RECURSIVE SeqOfSet(_)
\* the elements of a finite set of integers, ascending
SeqOfSet(S) ==
    IF S = {} THEN <<>>
    ELSE LET m == CHOOSE x \in S : \A y \in S : x <= y
         IN <<m>> \o SeqOfSet(S \ {m})

RECURSIVE Flat(_)
\* concatenation of a sequence of sequences
Flat(ss) == IF ss = <<>> THEN <<>> ELSE Head(ss) \o Flat(Tail(ss))

Perms(n) == {f \in [1..n -> 1..n] : \A i, j \in 1..n : i # j => f[i] # f[j]}

-----------------------------------------------------------------------------
(* objectfile: GeometryValue, Declaration, VertexData, Object *)

GeometryValue(index, x, y, z, w) ==
    [Index |-> index, Discard |-> FALSE, X |-> x, Y |-> y, Z |-> z, W |-> w]

\* mutant of Equals: the w component is not compared
Equals_NoW(gv, other, epsilon) ==
    /\ (IF gv.X - other.X < 0 THEN other.X - gv.X ELSE gv.X - other.X) <= epsilon
    /\ (IF gv.Y - other.Y < 0 THEN other.Y - gv.Y ELSE gv.Y - other.Y) <= epsilon
    /\ (IF gv.Z - other.Z < 0 THEN other.Z - gv.Z ELSE gv.Z - other.Z) <= epsilon

\* gv.Equals(other, epsilon): componentwise, all four components
Equals(gv, other, epsilon) ==
    /\ Abs(gv.X - other.X) <= epsilon
    /\ Abs(gv.Y - other.Y) <= epsilon
    /\ Abs(gv.Z - other.Z) <= epsilon
    /\ Abs(gv.W - other.W) <= epsilon

\* gv.Distance(to): squared distance over x, y, z
Distance(gv, to) ==
    LET dx == gv.X - to.X
        dy == gv.Y - to.Y
        dz == gv.Z - to.Z
    IN dx * dx + dy * dy + dz * dz

\* a Declaration: the raw indexes and the pointers (0 is nil)
Declaration(v, uv, n) ==
    [Vertex |-> v, UV |-> uv, Normal |-> n,
     RefVertex |-> 0, RefUV |-> 0, RefNormal |-> 0]

\* the raw index field of channel t (a Declaration has none for Param)
RawIndex(d, t) ==
    CASE t = Vertex -> d.Vertex
      [] t = UV -> d.UV
      [] t = Normal -> d.Normal
      [] OTHER -> 0

\* the pointer field of channel t
RefOf(d, t) ==
    CASE t = Vertex -> d.RefVertex
      [] t = UV -> d.RefUV
      [] t = Normal -> d.RefNormal
      [] OTHER -> 0

\* Declaration.Index(t) against a heap: the index of the value pointed to,
\* if there is a pointer, else the raw index
DeclIndex(vals, d, t) ==
    IF t \notin {Vertex, UV, Normal} THEN 0
    ELSE IF RefOf(d, t) # 0 THEN vals[t][RefOf(d, t)].Index
    ELSE RawIndex(d, t)

\* a VertexData: Decls is A, B, C, D of a face (the slots are filled in
\* order, so Face() is the sequence itself) or Points of a line / point
VertexData(t, decls) == [Type |-> t, Decls |-> decls, meta |-> ""]

Object(t, name, material) ==
    [Type |-> t, Name |-> name, Material |-> material, VertexData |-> <<>>]

\* OBJ.ObjectWithType(t), its length
NumObjectsWithType(objs, t) == Cardinality({i \in DOMAIN objs : objs[i].Type = t})

TypeName(t) == IF t = ChildObject THEN "object" ELSE "group"

\* OBJ.CreateObject(t, name, material): the new list of objects
CreateObject(objs, t, name, material) ==
    LET n == IF name = ""
             THEN TypeName(t) \o "_" \o ToString(NumObjectsWithType(objs, t) + 1)
             ELSE name
    IN Append(objs, Object(t, n, material))

\* every Declaration of a document, as <<object, element, slot>>
DeclPlaces(objs) ==
    UNION {UNION {{<<o, e, k>> : k \in DOMAIN objs[o].VertexData[e].Decls} :
                    e \in DOMAIN objs[o].VertexData} :
             o \in DOMAIN objs}

DeclAt(objs, pl) == objs[pl[1]].VertexData[pl[2]].Decls[pl[3]]

-----------------------------------------------------------------------------
(* Duplicates: replacer.  A replacer is [ref, replaces]: ref the pointer of *)
(* the representative, replaces the key set of the map r.replaces (the map  *)
(* sends the Index of a value to its pointer: while the find phase runs    *)
(* the Index of a value is its identity).  r.hasItems is kept equal to     *)
(* len(r.replaces) > 0 by Hit and Remove.                                   *)

Replacer(ref) == [ref |-> ref, replaces |-> {}]

hasItems(r) == r.replaces # {}

\* r.Remove(index)
Remove(r, index) == [r EXCEPT !.replaces = @ \ {index}]

\* r.Hit(ref): cannot hit self
Hit(r, ref) ==
    IF ref = r.ref THEN r ELSE [r EXCEPT !.replaces = @ \cup {ref}]

\* mutant of Merge: every hit of other moves to r, equal to r.ref or not
Merge_Transitive(vs, r, other) ==
    <<[r EXCEPT !.replaces = (@ \cup other.replaces) \ {r.ref}],
      [other EXCEPT !.replaces = {}]>>

\* mutant of Merge: other is not rejected from the hit list of r when it
\* has not been merged completely
Merge_NoReject(vs, r, other) ==
    LET self == {v \in other.replaces : v = r.ref}
        dup == {v \in other.replaces \ self : v \in r.replaces}
        moved == {v \in (other.replaces \ self) \ dup :
                     Equals(vs[r.ref], vs[v], StartParams.Epsilon)}
    IN <<[r EXCEPT !.replaces = @ \cup moved],
         [other EXCEPT !.replaces = @ \ (self \cup dup \cup moved)]>>

\* r.Merge(other) for the values vs of channel t: <<r, other>> afterwards.
\* The loop walks a snapshot of other.replaces; what it does with one value
\* depends on that value alone, so the order of the walk does not matter.
Merge(vs, r, other) ==
    LET self == {v \in other.replaces : v = r.ref}
        dup == {v \in other.replaces \ self : v \in r.replaces}
        moved == {v \in (other.replaces \ self) \ dup :
                     Equals(vs[r.ref], vs[v], StartParams.Epsilon)}
        r1 == [r EXCEPT !.replaces = @ \cup moved]
        o1 == [other EXCEPT !.replaces = @ \ (self \cup dup \cup moved)]
    IN IF hasItems(o1) THEN <<Remove(r1, o1.ref), o1>> ELSE <<r1, o1>>

\* mutant of deduplicate: a value in both sets stays with r1
deduplicate_KeepFirst(vs, r1, r2) ==
    <<r1, [r2 EXCEPT !.replaces = @ \ r1.replaces]>>

\* deduplicate(r1, r2): <<r1, r2>> afterwards.  A value in both sets stays
\* with r1 only if r1 is strictly closer to it.
deduplicate(vs, r1, r2) ==
    LET both == r1.replaces \cap r2.replaces
        keep1 == {v \in both : Distance(vs[r1.ref], vs[v]) < Distance(vs[r2.ref], vs[v])}
    IN <<[r1 EXCEPT !.replaces = @ \ (both \ keep1)],
         [r2 EXCEPT !.replaces = @ \ keep1]>>

\* replacerList.FlattenGeometry(): index -> pointer of the representative;
\* a later replacer of the list overwrites an earlier one
FlattenGeometry(rl) ==
    LET keys == UNION {rl[i].replaces : i \in DOMAIN rl}
        last(k) == CHOOSE i \in DOMAIN rl :
                      /\ k \in rl[i].replaces
                      /\ \A j \in DOMAIN rl : k \in rl[j].replaces => j <= i
    IN [k \in keys |-> rl[last(k)].ref]

\* mutant of sortByIndex: the list is left in the order of arrival
sortByIndex_Arrival(rs) == rs

RECURSIVE sortByIndex(_)
\* sort.Sort(replacerByIndex(results)): ascending by the Index of ref
sortByIndex(rs) ==
    IF rs = <<>> THEN <<>>
    ELSE LET m == CHOOSE i \in DOMAIN rs : \A j \in DOMAIN rs : rs[i].ref <= rs[j].ref
         IN <<rs[m]>> \o sortByIndex([k \in 1..(Len(rs) - 1) |->
                                         IF k < m THEN rs[k] ELSE rs[k + 1]])

-----------------------------------------------------------------------------
(* Duplicates: findDuplicates *)

\* mutant of processSlice: every value is compared with all the values of
\* the slice, the earlier ones too
processSlice_AllPairs(vs, substart, subend, fullslice, epsilon) ==
    LET scan(first) ==
            [ref |-> fullslice[first],
             replaces |-> {fullslice[second] : second \in
                             {j \in 1..Len(fullslice) :
                                 /\ Equals(vs[fullslice[j]], vs[fullslice[first]], epsilon)
                                 /\ fullslice[j] # fullslice[first]}}]
        firsts == {f \in (substart + 1)..subend : scan(f).replaces # {}}
        order == SeqOfSet(firsts)
    IN [k \in DOMAIN order |-> scan(order[k])]

\* mutant of processSlice: a value is compared with the later values of the
\* worker's own range only
processSlice_InRange(vs, substart, subend, fullslice, epsilon) ==
    LET scan(first) ==
            [ref |-> fullslice[first],
             replaces |-> {fullslice[second] : second \in
                             {j \in (first + 1)..subend :
                                 /\ Equals(vs[fullslice[j]], vs[fullslice[first]], epsilon)
                                 /\ fullslice[j] # fullslice[first]}}]
        firsts == {f \in (substart + 1)..subend : hasItems(scan(f))}
        order == SeqOfSet(firsts)
    IN [k \in DOMAIN order |-> scan(order[k])]

\* processSlice(substart, subend, fullslice): the worker's innerResults.
\* substart and subend are the 0-based bounds of the code.
processSlice(vs, substart, subend, fullslice, epsilon) ==
    LET scan(first) ==
            [ref |-> fullslice[first],
             replaces |-> {fullslice[second] : second \in
                             {j \in (first + 1)..Len(fullslice) :
                                 /\ Equals(vs[fullslice[j]], vs[fullslice[first]], epsilon)
                                 /\ fullslice[j] # fullslice[first]}}]
        firsts == {f \in (substart + 1)..subend : hasItems(scan(f))}
        order == SeqOfSet(firsts)
    IN [k \in DOMAIN order |-> scan(order[k])]

RECURSIVE workerRanges_NoRemainder(_, _, _)
\* mutant of workerRanges: the last worker gets numPerRoutine values like
\* the others, "end = len(slice)" is left out
workerRanges_NoRemainder(len, workers, iter) ==
    LET numPerRoutine == len \div workers
        start == iter * numPerRoutine
        end == start + numPerRoutine
        last == end >= len \/ iter = workers - 1
    IN IF iter >= workers THEN <<>>
       ELSE IF last THEN <<<<start, end>>>>
       ELSE <<<<start, end>>>> \o workerRanges_NoRemainder(len, workers, iter + 1)

RECURSIVE workerRanges(_, _, _)
\* the loop that starts the scan goroutines: the <<start, end>> of each
workerRanges(len, workers, iter) ==
    LET numPerRoutine == len \div workers
        start == iter * numPerRoutine
        end == start + numPerRoutine
        last == end >= len \/ iter = workers - 1
    IN IF iter >= workers THEN <<>>
       ELSE IF last THEN <<<<start, len>>>>
       ELSE <<<<start, end>>>> \o workerRanges(len, workers, iter + 1)

RECURSIVE mergeInner(_, _, _, _)
\* 1st run, the loop over i2 for one i1
mergeInner(vs, rs, i1, i2) ==
    IF i2 > Len(rs) THEN rs
    ELSE IF hasItems(rs[i2]) /\ hasItems(rs[i1]) /\ rs[i2].ref \in rs[i1].replaces
    THEN LET m == Merge(vs, rs[i1], rs[i2])
             rs1 == [rs EXCEPT ![i1] = m[1], ![i2] = m[2]]
         IN IF ~hasItems(m[1]) THEN rs1 ELSE mergeInner(vs, rs1, i1, i2 + 1)
    ELSE mergeInner(vs, rs, i1, i2 + 1)

\* mutant of mergeRun: the 1st run is left out
mergeRun_Skipped(vs, rs, i1) == rs

RECURSIVE mergeRun(_, _, _)
\* 1st run: merge
mergeRun(vs, rs, i1) ==
    IF i1 > Len(rs) THEN rs
    ELSE IF ~hasItems(rs[i1]) THEN mergeRun(vs, rs, i1 + 1)
    ELSE mergeRun(vs, mergeInner(vs, rs, i1, i1 + 1), i1 + 1)

RECURSIVE dedupInner(_, _, _, _)
\* 2nd run, the loop over i2 for one i1
dedupInner(vs, rs, i1, i2) ==
    IF i2 > Len(rs) THEN rs
    ELSE IF hasItems(rs[i2])
    THEN LET m == deduplicate(vs, rs[i1], rs[i2])
             rs1 == [rs EXCEPT ![i1] = m[1], ![i2] = m[2]]
         IN IF ~hasItems(m[1]) THEN rs1 ELSE dedupInner(vs, rs1, i1, i2 + 1)
    ELSE dedupInner(vs, rs, i1, i2 + 1)

RECURSIVE dedupRun(_, _, _)
\* 2nd run: deduplicate
dedupRun(vs, rs, i1) ==
    IF i1 > Len(rs) THEN rs
    ELSE IF ~hasItems(rs[i1]) THEN dedupRun(vs, rs, i1 + 1)
    ELSE dedupRun(vs, dedupInner(vs, rs, i1, i1 + 1), i1 + 1)

\* the replacers of a list that have items, in order
nonempty(rs) ==
    LET keep == SeqOfSet({i \in DOMAIN rs : hasItems(rs[i])})
    IN [k \in DOMAIN keep |-> rs[keep[k]]]

\* findDuplicates after wgInternal.Wait(): results is the shared list as the
\* workers appended to it.  The result handed to the callback, or no call.
findDuplicatesResult(vs, results) ==
    IF Len(results) = 0 THEN [called |-> FALSE, Items |-> <<>>]
    ELSE LET sorted == sortByIndex(results)
             nonemptyMerged == nonempty(mergeRun(vs, sorted, 1))
             nonemptyFinal == nonempty(dedupRun(vs, nonemptyMerged, 1))
         IN [called |-> TRUE, Items |-> nonemptyFinal]

-----------------------------------------------------------------------------
(* Duplicates: replaceDuplicates and the rewrite of the geometry *)

\* mutant of replaceDecl: the raw index is set to the representative too
replaceDecl_RawIndex(t, indexToRef, d) ==
    CASE t = Vertex /\ d.Vertex \in DOMAIN indexToRef ->
            [d EXCEPT !.RefVertex = indexToRef[d.Vertex], !.Vertex = indexToRef[d.Vertex]]
      [] t = UV /\ d.UV \in DOMAIN indexToRef ->
            [d EXCEPT !.RefUV = indexToRef[d.UV], !.UV = indexToRef[d.UV]]
      [] t = Normal /\ d.Normal \in DOMAIN indexToRef ->
            [d EXCEPT !.RefNormal = indexToRef[d.Normal], !.Normal = indexToRef[d.Normal]]
      [] OTHER -> d

\* one Declaration after replaceDuplicates(t, ...): the pointer of channel t
\* moves to the representative when the raw index is a key of indexToRef
replaceDecl(t, indexToRef, d) ==
    CASE t = Vertex /\ d.Vertex \in DOMAIN indexToRef ->
            [d EXCEPT !.RefVertex = indexToRef[d.Vertex]]
      [] t = UV /\ d.UV \in DOMAIN indexToRef ->
            [d EXCEPT !.RefUV = indexToRef[d.UV]]
      [] t = Normal /\ d.Normal \in DOMAIN indexToRef ->
            [d EXCEPT !.RefNormal = indexToRef[d.Normal]]
      [] OTHER -> d

\* mutant of discarded: every value with a representative is marked, cited
\* by a Declaration or not
discarded_Absorbed(t, indexToRef, objs) ==
    IF t \notin {Vertex, UV, Normal} THEN {} ELSE DOMAIN indexToRef

\* the values replaceDuplicates(t, ...) marks Discard: those a Declaration
\* points to whose raw index is a key of indexToRef
discarded(t, indexToRef, objs) ==
    IF t \notin {Vertex, UV, Normal} THEN {}
    ELSE {RefOf(DeclAt(objs, pl), t) : pl \in
             {q \in DeclPlaces(objs) : RawIndex(DeclAt(objs, q), t) \in DOMAIN indexToRef}}

\* replaceDuplicates(t, obj, replacements): [Objects, values] afterwards
replaceDuplicates(t, objs, vals, replacements) ==
    LET indexToRef == FlattenGeometry(replacements)
        gone == discarded(t, indexToRef, objs)
    IN [Objects |->
            [o \in DOMAIN objs |-> [objs[o] EXCEPT !.VertexData =
                [e \in DOMAIN @ |-> [@[e] EXCEPT !.Decls =
                    [k \in DOMAIN @ |-> replaceDecl(t, indexToRef, @[k])]]]]],
        values |->
            [vals EXCEPT ![t] = [id \in DOMAIN @ |->
                IF id \in gone THEN [@[id] EXCEPT !.Discard = TRUE] ELSE @[id]]]]

\* mutant of supported: the check of the other generation of
\* replaceDuplicates, which rewrites faces only
supported_FaceOnly(vt) == vt.Type = Face

\* replaceDuplicates: "catch newly added types that are not implemented yet
\* here", the element is one that replaceDuplicates rewrites
supported(vt) == vt.Type \in {Face, Line, Point}

\* replaceDuplicates ends the program with logFatal: it is called for a
\* channel with a result and meets an element it does not support
unsupported(objs, results) ==
    /\ \E t \in Channels : results[t].called
    /\ \E o \in DOMAIN objs : \E e \in DOMAIN objs[o].VertexData :
          ~supported(objs[o].VertexData[e])

RECURSIVE applyAll(_, _, _, _)
\* the loop of Execute over the channels that calls replaceDuplicates for
\* every channel with a result
applyAll(ts, objs, vals, results) ==
    IF ts = <<>> THEN [Objects |-> objs, values |-> vals]
    ELSE LET t == Head(ts)
             r == IF results[t].called
                  THEN replaceDuplicates(t, objs, vals, results[t].Items)
                  ELSE [Objects |-> objs, values |-> vals]
         IN applyAll(Tail(ts), r.Objects, r.values, results)

\* "Rewrite geometry" for one channel: the slice without the discarded values
compactSlice(vs, src) ==
    LET keep == SeqOfSet({i \in DOMAIN src : ~vs[src[i]].Discard})
    IN [k \in DOMAIN keep |-> src[keep[k]]]

\* mutant of compactValues: the kept values are not given their new Index
compactValues_KeepIndex(vs, src) == vs

\* "Rewrite geometry" for one channel: the heap, each kept value with its
\* new Index; a discarded value keeps the Index it had
compactValues(vs, src) ==
    LET dest == compactSlice(vs, src)
    IN [id \in DOMAIN vs |->
          IF \E k \in DOMAIN dest : dest[k] = id
          THEN [vs[id] EXCEPT !.Index = CHOOSE k \in DOMAIN dest : dest[k] = id]
          ELSE vs[id]]

-----------------------------------------------------------------------------
(* Duplicates.Execute, as steps of main and of the goroutines it starts *)

noResult == [called |-> FALSE, Items |-> <<>>]

engineIdle ==
    [phase |-> "idle", wg |-> {}, results |-> [t \in Channels |-> noResult]]

\* Execute up to wg.Wait(): one goroutine is started for every channel that
\* holds values
StartFind ==
    /\ pc = "duplicates"
    /\ ~StartParams.NoDuplicates
    /\ engine.phase = "idle"
    /\ engine' = [engine EXCEPT !.phase = "find",
                                !.wg = {t \in Channels : Len(Geometry[t]) > 0}]
    /\ UNCHANGED <<pc, StartParams, values, Geometry, Objects, parser, input, output>>

\* the goroutine findDuplicates(t, slice, ...): the scan workers run over
\* their ranges and append their results to the shared list in the order
\* they finish (perm), then the list is sorted, merged and deduplicated and
\* handed to setResults; wgMain.Done()
findDuplicates(t) ==
    /\ engine.phase = "find"
    /\ t \in engine.wg
    /\ LET slice == Geometry[t]
           ranges == workerRanges(Len(slice), StartParams.Workers, 0)
           inner == [w \in DOMAIN ranges |->
                        processSlice(values[t], ranges[w][1], ranges[w][2], slice,
                                     StartParams.Epsilon)]
           busy == SeqOfSet({w \in DOMAIN inner : inner[w] # <<>>})
       IN \E perm \in Perms(Len(busy)) :
            LET results == Flat([k \in DOMAIN busy |-> inner[busy[perm[k]]]])
                result == findDuplicatesResult(values[t], results)
            IN engine' = [engine EXCEPT
                            !.wg = @ \ {t},
                            !.results[t] = IF result.called THEN result ELSE @]
    /\ UNCHANGED <<pc, StartParams, values, Geometry, Objects, parser, input, output>>

\* mutant of Apply: main does not wait for the goroutines, wg.Wait() is
\* left out
Apply_NoWait ==
    /\ engine.phase = "find"
    /\ IF unsupported(Objects, engine.results)
       THEN /\ pc' = "fatal"
            /\ engine' = [engine EXCEPT !.phase = "fatal"]
            /\ UNCHANGED <<Objects, values>>
       ELSE /\ LET r == applyAll(GeometryTypes, Objects, values, engine.results)
               IN /\ Objects' = r.Objects
                  /\ values' = r.values
            /\ engine' = [engine EXCEPT !.phase = "rewrite"]
            /\ pc' = pc
    /\ UNCHANGED <<StartParams, Geometry, parser, input, output>>

\* Execute after wg.Wait(): the references are rewritten, channel by channel
Apply ==
    /\ engine.phase = "find"
    /\ engine.wg = {}
    /\ IF unsupported(Objects, engine.results)
       THEN /\ pc' = "fatal"
            /\ engine' = [engine EXCEPT !.phase = "fatal"]
            /\ UNCHANGED <<Objects, values>>
       ELSE /\ LET r == applyAll(GeometryTypes, Objects, values, engine.results)
               IN /\ Objects' = r.Objects
                  /\ values' = r.values
            /\ engine' = [engine EXCEPT !.phase = "rewrite"]
            /\ pc' = pc
    /\ UNCHANGED <<StartParams, Geometry, parser, input, output>>

\* Execute, "Rewrite geometry": every channel is rebuilt without the
\* discarded values; the slice is replaced only if its length changed
Compact ==
    /\ engine.phase = "rewrite"
    /\ values' = [t \in Channels |-> compactValues(values[t], Geometry[t])]
    /\ Geometry' = [t \in Channels |->
                      LET dest == compactSlice(values[t], Geometry[t])
                      IN IF Len(dest) # Len(Geometry[t]) THEN dest ELSE Geometry[t]]
    /\ engine' = [engine EXCEPT !.phase = "done"]
    /\ pc' = "merge"
    /\ UNCHANGED <<StartParams, Objects, parser, input, output>>

-----------------------------------------------------------------------------
(* documents as the parser leaves them, for the processors to start from *)

\* the components of the Vertex values the generated documents draw from:
\* a chain 0 - 2 - 3 in x, and one value 1.5 epsilon away in y, z, w alone
PosVals ==
    {<<0, 0, 0, 1>>, <<2, 0, 0, 1>>, <<3, 0, 0, 1>>,
     <<0, 3, 0, 1>>, <<0, 0, 3, 1>>, <<0, 0, 0, 4>>}

\* the heap of a channel read from the given component tuples
heapOf(tuples) ==
    [i \in DOMAIN tuples |->
        GeometryValue(i, tuples[i][1], tuples[i][2], tuples[i][3], tuples[i][4])]

sliceOf(tuples) == [i \in DOMAIN tuples |-> i]

\* a Declaration as ReadVertexData resolves it: absolute indexes, pointers set
resolved(v, uv, n) ==
    [Vertex |-> v, UV |-> uv, Normal |-> n,
     RefVertex |-> v, RefUV |-> uv, RefNormal |-> n]

\* the path of the input file: its directory, its name and its suffix
InputPath == [dir |-> "models", name |-> "in", ext |-> ".obj"]

\* the output file before the run
oldFile == [file |-> "old", lines |-> <<>>]

StartParamsDefault ==
    [Input |-> InputPath, Epsilon |-> DefaultEpsilon, Workers |-> DefaultWorkers,
     Strict |-> FALSE, NoDuplicates |-> FALSE, NoMerge |-> FALSE]

parserIdle ==
    [linenum |-> 0, currentObject |-> 0, currentObjectName |-> "",
     currentObjectChildIndex |-> 0, currentMaterial |-> "",
     currentSmoothGroup |-> "", err |-> "", errLine |-> 0, returned |-> ""]

\* the element type of a generated element with n declarations
kindOf(n) == IF n = 1 THEN Point ELSE IF n = 2 THEN Line ELSE Face

\* A document with the Vertex values vs, in which the values at the
\* positions refd are referenced, in one element of one object.  With aux
\* (for the documents of at most two Vertex values) the other three channels
\* hold values too, with duplicates among them.
InitDup ==
    \E n \in 1..MaxVals : \E vs \in [1..n -> PosVals] :
    \E refd \in SUBSET (1..n) : \E aux \in (IF n <= 2 THEN BOOLEAN ELSE {FALSE}) :
      LET uvs == IF aux THEN <<<<0, 0, 0, 0>>, <<1, 0, 0, 0>>, <<4, 0, 0, 0>>>> ELSE <<>>
          ns == IF aux THEN <<<<0, 0, 2, 0>>, <<0, 0, 2, 0>>>> ELSE <<>>
          ps == IF aux THEN <<<<1, 1, 0, 0>>, <<1, 1, 0, 0>>>> ELSE <<>>
          order == SeqOfSet(refd)
          decls == [k \in DOMAIN order |->
                      resolved(order[k],
                               IF aux THEN ((k - 1) % 3) + 1 ELSE 0,
                               IF aux THEN (k % 3) ELSE 0)]
      IN /\ values = [t \in Channels |->
                        CASE t = Vertex -> heapOf(vs)
                          [] t = UV -> heapOf(uvs)
                          [] t = Normal -> heapOf(ns)
                          [] t = Param -> heapOf(ps)]
         /\ Geometry = [t \in Channels |->
                        CASE t = Vertex -> sliceOf(vs)
                          [] t = UV -> sliceOf(uvs)
                          [] t = Normal -> sliceOf(ns)
                          [] t = Param -> sliceOf(ps)]
         /\ Objects = IF refd = {} THEN <<>>
                      ELSE <<[Object(ChildObject, "A", "") EXCEPT !.VertexData =
                                 <<VertexData(kindOf(Len(decls)), decls)>>]>>
    /\ pc = "duplicates"
    /\ StartParams = StartParamsDefault
    /\ parser = parserIdle
    /\ input = <<>>
    /\ engine = engineIdle
    /\ output = oldFile

NextDup == StartFind \/ (\E t \in Channels : findDuplicates(t)) \/ Apply \/ Compact

\* the Duplicates processor on every generated document
SpecDup == InitDup /\ [][NextDup]_vars

-----------------------------------------------------------------------------
(* the lines of an OBJ file *)

\* the remaining types of a line (TypeFromString, Type.String)
Comment == "#"
MtlLib == "mtllib"
MtlUse == "usemtl"
SmoothingGroup == "s"

\* A line as parse sees it after TrimSpace and parseLineType: the type t of
\* its keyword ("" for an empty line) and its value, split at the spaces
\* into parts and each part at the slashes into dataparts.
SourceLine(t, parts) == [t |-> t, value |-> parts]

\* the value of a line that holds one word
word(line) == line.value[1][1]

\* a line of three parts of one datapart each, a line of one word
geometryLine(t, x, y, z) == SourceLine(t, <<<<x>>, <<y>>, <<z>>>>)
wordLine(t, value) == SourceLine(t, <<<<value>>>>)

\* an empty line
emptyLine == SourceLine("", <<>>)

-----------------------------------------------------------------------------
(* the writer: GeometryValue.String, VertexData.String, Writer.WriteTo *)

\* strconv.FormatFloat(x, 'g', -1, 64), for the numbers on the grid
FormatFloat(x) == ToString(x)

\* strconv.Itoa(n)
Itoa(n) == ToString(n)

\* gv.String(t), split at the spaces: x and y, z unless t is UV, w for a
\* Vertex whose w is not the default
GeometryValueString(gv, t) ==
    (IF t = UV THEN <<<<FormatFloat(gv.X)>>, <<FormatFloat(gv.Y)>>>>
     ELSE <<<<FormatFloat(gv.X)>>, <<FormatFloat(gv.Y)>>, <<FormatFloat(gv.Z)>>>>)
    \o (IF t \in {Vertex, Point} /\ gv.W # 1 THEN <<<<FormatFloat(gv.W)>>>> ELSE <<>>)

\* d.Equals(other), the indexes taken through the pointers
DeclEquals(vals, d, other) ==
    \A t \in {Vertex, UV, Normal} : DeclIndex(vals, d, t) = DeclIndex(vals, other, t)

\* the text of one index, empty for 0
indexText(index) == IF index # 0 THEN Itoa(index) ELSE ""

\* vt.String() of a line or a point, split at the spaces and slashes: a
\* declaration equal to the one before it is left out; the UV is written
\* for a line of which some declaration has one
listString(vals, vt) ==
    LET hasUVs == /\ vt.Type = Line
                  /\ \E k \in DOMAIN vt.Decls : DeclIndex(vals, vt.Decls[k], UV) # 0
        kept == SeqOfSet({k \in DOMAIN vt.Decls :
                            k = 1 \/ ~DeclEquals(vals, vt.Decls[k - 1], vt.Decls[k])})
    IN [j \in DOMAIN kept |->
          <<Itoa(DeclIndex(vals, vt.Decls[kept[j]], Vertex))>>
          \o (IF hasUVs THEN <<indexText(DeclIndex(vals, vt.Decls[kept[j]], UV))>>
              ELSE <<>>)]

\* vt.String() of a face, split at the spaces and slashes
faceString(vals, vt) ==
    LET hasUVs == \E k \in DOMAIN vt.Decls : DeclIndex(vals, vt.Decls[k], UV) # 0
        hasNormals == \E k \in DOMAIN vt.Decls : DeclIndex(vals, vt.Decls[k], Normal) # 0
    IN [k \in DOMAIN vt.Decls |->
          <<Itoa(DeclIndex(vals, vt.Decls[k], Vertex))>>
          \o (IF hasUVs \/ hasNormals
              THEN <<indexText(DeclIndex(vals, vt.Decls[k], UV))>> ELSE <<>>)
          \o (IF hasNormals
              THEN <<indexText(DeclIndex(vals, vt.Decls[k], Normal))>> ELSE <<>>)]

\* vt.String()
VertexDataString(vals, vt) ==
    IF vt.Type = Face THEN faceString(vals, vt) ELSE listString(vals, vt)

\* the instants at which a run may write its output (time.Now())
Clock == {"2017-01-01T00:00:00Z", "2017-01-01T00:00:01Z"}

\* WriteTo: "leave a comment that signifies this tool was ran on the file"
provenance(now) ==
    <<wordLine(Comment, "Processed with obj-simplify dev | " \o now), emptyLine>>

\* WriteTo, "geometry": the lines of the channel at position ti of the
\* order Vertex, Normal, UV, Param
writeGeometry(vals, geom, ti) ==
    LET t == GeometryTypes[ti]
        slice == geom[t]
    IN IF Len(slice) = 0 THEN <<>>
       ELSE (IF ti > 1 THEN <<emptyLine>> ELSE <<>>)
            \o <<wordLine(Comment, ToString(Len(slice))), emptyLine>>
            \o [k \in DOMAIN slice |->
                  SourceLine(t, GeometryValueString(vals[t][slice[k]], t))]

\* WriteTo, the lines of one element: its smoothing group, if it has one,
\* and the element
writeVertexData(vals, vd) ==
    (IF vd.meta # "" THEN <<wordLine(SmoothingGroup, vd.meta)>> ELSE <<>>)
    \o <<SourceLine(vd.Type, VertexDataString(vals, vd))>>

\* WriteTo, "objects": the lines of one object
writeObject(vals, child) ==
    <<wordLine(child.Type, child.Name)>>
    \o (IF child.Material # "" THEN <<wordLine(MtlUse, child.Material)>> ELSE <<>>)
    \o <<emptyLine>>
    \o Flat([k \in DOMAIN child.VertexData |-> writeVertexData(vals, child.VertexData[k])])
    \o <<emptyLine>>

\* Writer.WriteTo(writer) at the instant now: the lines written (the
\* comments and the material libraries of a document are not part of the
\* state; the comments with the counts hold the count alone)
WriteTo(vals, geom, objs, now) ==
    provenance(now)
    \o Flat([ti \in DOMAIN GeometryTypes |-> writeGeometry(vals, geom, ti)])
    \o <<emptyLine>>
    \o <<wordLine(Comment, ToString(Len(objs))), emptyLine>>
    \o Flat([k \in DOMAIN objs |-> writeObject(vals, objs[k])])

\* main: Writer.WriteFile removes an existing output file and writes the
\* document
WriteFile ==
    /\ pc = "write"
    /\ \E now \in Clock :
         output' = [file |-> "written", lines |-> WriteTo(values, Geometry, Objects, now)]
    /\ pc' = "done"
    /\ UNCHANGED <<StartParams, values, Geometry, Objects, parser, input, engine>>

-----------------------------------------------------------------------------
(* Merge.Execute *)

\* a merger: a material and the objects that use it
merger(material, objects) == [Material |-> material, Objects |-> objects]

\* mutant of newMaterial: a material met for the first time goes to the
\* front of the list
newMaterial_AtFront(materials, child) ==
    <<merger(child.Material, <<child>>)>> \o materials

\* materials = append(materials, &merger{...})
newMaterial(materials, child) ==
    Append(materials, merger(child.Material, <<child>>))

\* mutant of skipChild: no child is skipped
skipChild_Never(child) == FALSE

\* "skip children that do not declare faces etc."
skipChild(child) == Len(child.VertexData) = 0

RECURSIVE groupByMaterial(_, _)
\* the first loop of Execute over obj.Objects: the list of mergers
groupByMaterial(children, materials) ==
    IF children = <<>> THEN materials
    ELSE LET child == Head(children)
             found == {m \in DOMAIN materials : materials[m].Material = child.Material}
         IN IF skipChild(child) THEN groupByMaterial(Tail(children), materials)
            ELSE IF found # {}
            THEN LET m == CHOOSE x \in found : \A y \in found : x <= y
                 IN groupByMaterial(Tail(children),
                        [materials EXCEPT ![m].Objects = Append(@, child)])
            ELSE groupByMaterial(Tail(children), newMaterial(materials, child))

RECURSIVE Join(_, _)
\* strings.Join(parts, sep)
Join(parts, sep) ==
    IF parts = <<>> THEN ""
    ELSE IF Len(parts) = 1 THEN parts[1]
    ELSE parts[1] \o sep \o Join(Tail(parts), sep)

\* mutant of mergeName: the names are joined with nothing between them
mergeName_Unspaced(objects) ==
    LET named == SeqOfSet({i \in DOMAIN objects : objects[i].Name # ""})
        parts == [k \in DOMAIN named |-> objects[named[k]].Name]
    IN Join(IF Len(parts) = 0 THEN <<"Unnamed">> ELSE parts, "")

\* mergeName(objects)
mergeName(objects) ==
    LET named == SeqOfSet({i \in DOMAIN objects : objects[i].Name # ""})
        parts == [k \in DOMAIN named |-> objects[named[k]].Name]
    IN Join(IF Len(parts) = 0 THEN <<"Unnamed">> ELSE parts, " ")

RECURSIVE createMerged_FirstOnly(_, _)
\* mutant of createMerged: the new object gets the VertexData of the first
\* object of the merger only
createMerged_FirstOnly(materials, objs) ==
    IF materials = <<>> THEN objs
    ELSE LET m == Head(materials)
             src == m.Objects[1]
             created == CreateObject(objs, src.Type, mergeName(m.Objects), m.Material)
             child == Len(created)
         IN createMerged_FirstOnly(Tail(materials),
                [created EXCEPT ![child].VertexData = src.VertexData])

RECURSIVE createMerged(_, _)
\* the second loop of Execute: one new object per merger, with the
\* VertexData of the merger's objects appended in order
createMerged(materials, objs) ==
    IF materials = <<>> THEN objs
    ELSE LET m == Head(materials)
             src == m.Objects[1]
             created == CreateObject(objs, src.Type, mergeName(m.Objects), m.Material)
             child == Len(created)
             all == Flat([k \in DOMAIN m.Objects |-> m.Objects[k].VertexData])
         IN createMerged(Tail(materials), [created EXCEPT ![child].VertexData = all])

\* Merge.Execute(obj): obj.Objects afterwards
MergeExecute(objs) == createMerged(groupByMaterial(objs, <<>>), <<>>)

\* main: the Merge processor
ExecMerge ==
    /\ pc = "merge"
    /\ ~StartParams.NoMerge
    /\ Objects' = MergeExecute(Objects)
    /\ pc' = "write"
    /\ UNCHANGED <<StartParams, values, Geometry, parser, input, engine, output>>

\* largest number of objects of a generated document
MaxObjs == 3

ObjNames == <<"A", "B", "C", "D", "E", "F">>

\* the j-th element (over the whole document) of a generated document:
\* a face, a line or a point on the Vertex value j
elementOf(j) ==
    CASE j % 3 = 1 -> VertexData(Face, <<resolved(j, 0, 0), resolved(j, 0, 0), resolved(j, 0, 0)>>)
      [] j % 3 = 2 -> VertexData(Line, <<resolved(j, 0, 0), resolved(j, 0, 0)>>)
      [] OTHER -> VertexData(Point, <<resolved(j, 0, 0)>>)

\* the number of elements of the objects before object i
elementsBefore(counts, i) ==
    LET sum[k \in 0..Len(counts)] == IF k = 0 THEN 0 ELSE sum[k - 1] + counts[k]
    IN sum[i - 1]

\* A parsed document of n objects named A, B, ..., each an object or a
\* group, with a material and zero to two elements; one Vertex value per
\* element, the values far apart.  Duplicates is disabled or has run.
InitMerge ==
    \E n \in 0..MaxObjs :
    \E types \in [1..n -> {ChildObject, ChildGroup}] :
    \E mats \in [1..n -> {"", "m1", "m2"}] :
    \E counts \in [1..n -> 0..2] :
      LET total == elementsBefore(counts, n + 1)
          vs == [j \in 1..total |-> <<10 * j, 0, 0, 1>>]
      IN /\ values = [t \in Channels |-> IF t = Vertex THEN heapOf(vs) ELSE <<>>]
         /\ Geometry = [t \in Channels |-> IF t = Vertex THEN sliceOf(vs) ELSE <<>>]
         /\ Objects = [i \in 1..n |->
               [Object(types[i], ObjNames[i], mats[i]) EXCEPT !.VertexData =
                   [k \in 1..counts[i] |-> elementOf(elementsBefore(counts, i) + k)]]]
    /\ pc = "merge"
    /\ StartParams = StartParamsDefault
    /\ parser = parserIdle
    /\ input = <<>>
    /\ engine = engineIdle
    /\ output = oldFile

NextMerge == ExecMerge \/ WriteFile

\* the Merge processor and the writer on every generated document
SpecMerge == InitMerge /\ [][NextMerge]_vars

\* the smoothing groups of the generated elements ("" is none)
DocGroups == {"", "1"}

\* the Vertex values of a generated document of total elements: far apart,
\* the first two within epsilon of each other, or all of them
docValues(total, near) ==
    [j \in 1..total |-> IF j <= near THEN <<0, 0, 0, 1>> ELSE <<10 * j, 0, 0, 1>>]

\* A parsed document of n objects named A, B, ..., each with a material;
\* the first holds two points and the others one, a point may carry a
\* smoothing group; the j-th point of the document is on the Vertex value j
InitDoc ==
    \E n \in 1..MaxObjs :
    \E mats \in [1..n -> {"m1", "m2"}] :
    \E groups \in [1..n -> DocGroups] :
    \E near \in {0, 2, n + 1} :
      LET counts == [i \in 1..n |-> IF i = 1 THEN 2 ELSE 1]
          vs == docValues(n + 1, near)
          point(i, k) ==
              [VertexData(Point, <<resolved(elementsBefore(counts, i) + k, 0, 0)>>)
                  EXCEPT !.meta = IF k = counts[i] THEN groups[i] ELSE ""]
      IN /\ values = [t \in Channels |-> IF t = Vertex THEN heapOf(vs) ELSE <<>>]
         /\ Geometry = [t \in Channels |-> IF t = Vertex THEN sliceOf(vs) ELSE <<>>]
         /\ Objects = [i \in 1..n |->
               [Object(ChildObject, ObjNames[i], mats[i]) EXCEPT !.VertexData =
                   [k \in 1..counts[i] |-> point(i, k)]]]
    /\ pc = "duplicates"
    /\ StartParams = StartParamsDefault
    /\ parser = parserIdle
    /\ input = <<>>
    /\ engine = engineIdle
    /\ output = oldFile

NextDoc ==
    \/ StartFind
    \/ \E t \in Channels : findDuplicates(t)
    \/ Apply
    \/ Compact
    \/ ExecMerge
    \/ WriteFile

\* both processors and the writer on every generated document
SpecDoc == InitDoc /\ [][NextDoc]_vars

-----------------------------------------------------------------------------
(* the parser: Geometry.ReadValue, Object.ReadVertexData, parse *)

\* largest number of input lines read
MaxLines == 6

\* largest coordinate written in an input line
MaxCoord == 4

\* largest absolute value of an index written in an input line
MaxRef == MaxVals + 1

\* strconv.Atoi(s): the integer whose decimal text is s, or an error
Atoi(s) ==
    IF \E n \in -MaxRef..MaxRef : ToString(n) = s
    THEN [err |-> FALSE, value |-> CHOOSE n \in -MaxRef..MaxRef : ToString(n) = s]
    ELSE [err |-> TRUE, value |-> 0]

\* strconv.ParseFloat(s, 64), for the numbers on the grid
ParseFloat(s) ==
    IF \E n \in -MaxCoord..MaxCoord : ToString(n) = s
    THEN [err |-> FALSE, value |-> CHOOSE n \in -MaxCoord..MaxCoord : ToString(n) = s]
    ELSE [err |-> TRUE, value |-> 0]

\* the texts "-0.", "-0.0", ... of a negative zero with decimals
NegativeZeros == {"-0.", "-0.0", "-0.00"}

\* one turn of the loop of ReadValue, on part i of the payload (i counts
\* from 1, empty parts included): the error, if any, and the value so far
readPart(gv, raw, i, t, strict) ==
    LET part == IF raw = "-0" \/ raw \in NegativeZeros THEN "0" ELSE raw
        num == ParseFloat(part)
    IN IF raw = "" THEN [err |-> "", gv |-> gv]
       ELSE IF num.err THEN [err |-> "number", gv |-> gv]
       ELSE CASE i = 1 -> [err |-> "", gv |-> [gv EXCEPT !.X = num.value]]
              [] i = 2 -> [err |-> "", gv |-> [gv EXCEPT !.Y = num.value]]
              [] i = 3 -> [err |-> "", gv |-> [gv EXCEPT !.Z = num.value]]
              [] i = 4 -> IF strict /\ t # Vertex
                          THEN [err |-> "strict", gv |-> gv]
                          ELSE [err |-> "", gv |-> [gv EXCEPT !.W = num.value]]
              [] OTHER -> [err |-> IF strict THEN "strict" ELSE "", gv |-> gv]

RECURSIVE readParts(_, _, _, _, _)
\* the loop of ReadValue over the parts of the payload, from part i on
readParts(gv, parts, i, t, strict) ==
    IF i > Len(parts) THEN [err |-> "", gv |-> gv]
    ELSE LET r == readPart(gv, parts[i][1], i, t, strict)
         IN IF r.err # "" THEN r ELSE readParts(r.gv, parts, i + 1, t, strict)

\* mutant of appendValue: the index is taken after the append has been
\* counted from 0, "gv.Index = len(g.Get(t))"
appendValue_FromZero(vals, geom, t, r) ==
    IF r.err # "" THEN [err |-> r.err, values |-> vals, Geometry |-> geom]
    ELSE IF t \notin Channels THEN [err |-> "type", values |-> vals, Geometry |-> geom]
    ELSE [err |-> "",
          values |-> [vals EXCEPT ![t] = Append(@, [r.gv EXCEPT !.Index = Len(geom[t])])],
          Geometry |-> [geom EXCEPT ![t] = Append(@, Len(vals[t]) + 1)]]

\* ReadValue after the loop: the value gets the next index of its channel
\* and is appended
appendValue(vals, geom, t, r) ==
    IF r.err # "" THEN [err |-> r.err, values |-> vals, Geometry |-> geom]
    ELSE IF t \notin Channels THEN [err |-> "type", values |-> vals, Geometry |-> geom]
    ELSE [err |-> "",
          values |-> [vals EXCEPT ![t] = Append(@, [r.gv EXCEPT !.Index = Len(geom[t]) + 1])],
          Geometry |-> [geom EXCEPT ![t] = Append(@, Len(vals[t]) + 1)]]

\* Geometry.ReadValue(t, value, strict) on the channels geom with the heap
\* vals: the error, if any, and the channels and the heap afterwards
ReadValue(vals, geom, t, parts, strict) ==
    appendValue(vals, geom, t,
        readParts(GeometryValue(0, 0, 0, 0, IF t = Vertex \/ t = Point THEN 1 ELSE 0),
                  parts, 1, t, strict))

\* mutant of readDatapart: a datapart beyond the fields is passed over in
\* strict mode too
readDatapart_NeverStrict(decl, datapart, i, list, strict) ==
    LET num == Atoi(datapart)
        value == IF datapart = "" THEN 0 ELSE num.value
        fields == IF list THEN 2 ELSE 3
    IN IF datapart = "" /\ list THEN [err |-> "", decl |-> decl]
       ELSE IF datapart # "" /\ num.err THEN [err |-> "number", decl |-> decl]
       ELSE IF i > fields THEN [err |-> "", decl |-> decl]
       ELSE CASE i = 1 -> [err |-> "", decl |-> [decl EXCEPT !.Vertex = value]]
              [] i = 2 -> [err |-> "", decl |-> [decl EXCEPT !.UV = value]]
              [] OTHER -> [err |-> "", decl |-> [decl EXCEPT !.Normal = value]]

\* one turn of the inner loop of ParseFaceVertexData (list = FALSE: Vertex,
\* UV, Normal) and of ParseListVertexData (list = TRUE: Vertex, UV), on
\* datapart i of a part; the list parser skips an empty datapart, the face
\* parser reads it as 0
readDatapart(decl, datapart, i, list, strict) ==
    LET num == Atoi(datapart)
        value == IF datapart = "" THEN 0 ELSE num.value
        fields == IF list THEN 2 ELSE 3
    IN IF datapart = "" /\ list THEN [err |-> "", decl |-> decl]
       ELSE IF datapart # "" /\ num.err THEN [err |-> "number", decl |-> decl]
       ELSE IF i > fields THEN [err |-> IF strict THEN "strict" ELSE "", decl |-> decl]
       ELSE CASE i = 1 -> [err |-> "", decl |-> [decl EXCEPT !.Vertex = value]]
              [] i = 2 -> [err |-> "", decl |-> [decl EXCEPT !.UV = value]]
              [] OTHER -> [err |-> "", decl |-> [decl EXCEPT !.Normal = value]]

RECURSIVE readDataparts(_, _, _, _, _)
\* the inner loop over the slash-separated dataparts of one part, from
\* datapart i on
readDataparts(decl, dataparts, i, list, strict) ==
    IF i > Len(dataparts) THEN [err |-> "", decl |-> decl]
    ELSE LET r == readDatapart(decl, dataparts[i], i, list, strict)
         IN IF r.err # "" THEN r ELSE readDataparts(r.decl, dataparts, i + 1, list, strict)

RECURSIVE faceParts(_, _, _, _)
\* the outer loop of ParseFaceVertexData from part iMain on: the slots A, B,
\* C, D are filled in order; a fifth part is an error in strict mode and
\* ends the loop otherwise
faceParts(decls, parts, iMain, strict) ==
    IF iMain > Len(parts) THEN [err |-> "", decls |-> decls]
    ELSE IF iMain > 4
    THEN [err |-> IF strict THEN "strict" ELSE "", decls |-> decls]
    ELSE LET d == readDataparts(Declaration(0, 0, 0), parts[iMain], 1, FALSE, strict)
         IN IF d.err # "" THEN [err |-> d.err, decls |-> decls]
            ELSE faceParts(Append(decls, d.decl), parts, iMain + 1, strict)

\* ParseFaceVertexData(str, strict)
ParseFaceVertexData(parts, strict) ==
    LET r == faceParts(<<>>, parts, 1, strict)
    IN [err |-> r.err, vt |-> VertexData(Face, r.decls)]

RECURSIVE listParts(_, _, _, _)
\* the outer loop of ParseListVertexData from part iMain on
listParts(decls, parts, iMain, strict) ==
    IF iMain > Len(parts) THEN [err |-> "", decls |-> decls]
    ELSE LET d == readDataparts(Declaration(0, 0, 0), parts[iMain], 1, TRUE, strict)
         IN IF d.err # "" THEN [err |-> d.err, decls |-> decls]
            ELSE listParts(Append(decls, d.decl), parts, iMain + 1, strict)

\* ParseListVertexData(t, str, strict)
ParseListVertexData(t, parts, strict) ==
    LET r == listParts(<<>>, parts, 1, strict)
    IN IF t # Line /\ t # Point THEN [err |-> "type", vt |-> VertexData(t, <<>>)]
       ELSE [err |-> r.err, vt |-> VertexData(t, r.decls)]

\* mutant of absoluteIndex: relative to the count, without the + 1
absoluteIndex_OffByOne(index, count) ==
    IF index < 0 THEN index + count ELSE index

\* ReadVertexData: "Convert relative values to absolute"
absoluteIndex(index, count) ==
    IF index < 0 THEN index + count + 1 ELSE index

\* mutant of outOfBounds: only the upper bound is checked
outOfBounds_UpperOnly(index, count) == index > count

\* ReadVertexData: the bounds check on a converted index
outOfBounds(index, count) == index <= 0 \/ index > count

\* ReadVertexData on one channel of one declaration, the index made
\* absolute: it is checked, the pointer is set and its Index compared
checkChannel(vals, geom, t, index, abs) ==
    IF index = 0 THEN [err |-> "", index |-> 0, ref |-> 0]
    ELSE IF outOfBounds(abs, Len(geom[t])) THEN [err |-> "bounds", index |-> abs, ref |-> 0]
    ELSE IF abs \notin DOMAIN geom[t]
    THEN [err |-> "panic", index |-> abs, ref |-> 0]  \* index out of range
    ELSE IF vals[t][geom[t][abs]].Index # abs
    THEN [err |-> "mismatch", index |-> abs, ref |-> geom[t][abs]]
    ELSE [err |-> "", index |-> abs, ref |-> geom[t][abs]]

\* ReadVertexData on one channel of one declaration
resolveChannel(vals, geom, t, index) ==
    checkChannel(vals, geom, t, index, absoluteIndex(index, Len(geom[t])))

\* the declaration and the first error of its channels
resolvedDecl(v, uv, n) ==
    [err |-> IF v.err # "" THEN v.err ELSE IF uv.err # "" THEN uv.err ELSE n.err,
     decl |-> [Vertex |-> v.index, UV |-> uv.index, Normal |-> n.index,
               RefVertex |-> v.ref, RefUV |-> uv.ref, RefNormal |-> n.ref]]

\* ReadVertexData on one declaration: Vertex, then UV, then Normal
resolveDecl(vals, geom, decl) ==
    resolvedDecl(resolveChannel(vals, geom, Vertex, decl.Vertex),
                 resolveChannel(vals, geom, UV, decl.UV),
                 resolveChannel(vals, geom, Normal, decl.Normal))

\* ReadVertexData after the loop over the declarations res of the element
\* vt: the first error, or the element is appended to the object at o
appendVertexData(objs, o, vt, res) ==
    LET bad == {k \in DOMAIN res : res[k].err # ""}
        done == [vt EXCEPT !.Decls = [k \in DOMAIN res |-> res[k].decl]]
    IN IF bad # {}
       THEN [err |-> res[CHOOSE k \in bad : \A j \in bad : k <= j].err,
             vt |-> done, Objects |-> objs]
       ELSE [err |-> "", vt |-> done,
             Objects |-> [objs EXCEPT ![o].VertexData = Append(@, done)]]

\* ReadVertexData after the element has been parsed
resolveVertexData(objs, o, vals, geom, parsed) ==
    IF parsed.err # "" THEN [err |-> parsed.err, vt |-> parsed.vt, Objects |-> objs]
    ELSE appendVertexData(objs, o, parsed.vt,
            [k \in DOMAIN parsed.vt.Decls |-> resolveDecl(vals, geom, parsed.vt.Decls[k])])

\* o.ReadVertexData(t, value, strict) for the object at position o: the
\* error, if any, the element read and the objects afterwards; the element
\* is appended only when every declaration has been resolved
ReadVertexData(objs, o, vals, geom, t, parts, strict) ==
    resolveVertexData(objs, o, vals, geom,
        CASE t = Face -> ParseFaceVertexData(parts, strict)
          [] t \in {Line, Point} -> ParseListVertexData(t, parts, strict)
          [] OTHER -> [err |-> "type", vt |-> VertexData(t, <<>>)])

\* fileBasename(path): the name without directory and suffix
fileBasename(path) == path.name

\* the document under construction and the locals of parse
parseState(vals, geom, objs, ps) ==
    [values |-> vals, Geometry |-> geom, Objects |-> objs, parser |-> ps]

\* mutant of wrapErrorLine: the lines are numbered from 0
wrapErrorLine_FromZero(linenum) == linenum - 1

\* wrapErrorLine(err, linenum): the number after "line:" in the message
wrapErrorLine(linenum) == linenum

\* return nil, linenum, wrapErrorLine(err, linenum)
parseError(st, err) ==
    [st EXCEPT !.parser.err = err,
               !.parser.errLine = wrapErrorLine(st.parser.linenum),
               !.parser.returned = "nil"]

\* fakeObject(material)
fakeObject(st, material) ==
    LET ps == st.parser
        ot == IF ps.currentObject # 0 THEN st.Objects[ps.currentObject].Type ELSE ChildObject
        index == ps.currentObjectChildIndex + 1
        name == ps.currentObjectName \o "_" \o ToString(index)
        objs == CreateObject(st.Objects, ot, name, material)
    IN [st EXCEPT !.Objects = objs,
                  !.parser.currentObjectChildIndex = index,
                  !.parser.currentObject = Len(objs)]

\* mutant of splitNeeded: no material-use line splits, the current object
\* takes the new material
splitNeeded_Never(st, value) == FALSE

\* mutant of splitNeeded: every material-use line of an object splits
splitNeeded_Always(st, value) == TRUE

\* parse, case MtlUse: "only fake if the current object has declared vertex
\* data and the material name actually changed"
splitNeeded(st, value) ==
    LET current == st.Objects[st.parser.currentObject]
    IN Len(current.VertexData) > 0 /\ current.Material # value

\* parse, case MtlUse, after the split: the material is stored and set
setMaterial(st, value) ==
    [st EXCEPT !.parser.currentMaterial = value,
               !.Objects = IF st.parser.currentObject # 0
                           THEN [@ EXCEPT ![st.parser.currentObject].Material = value]
                           ELSE @]

\* parse, case MtlUse
parseMtlUse(st, value) ==
    setMaterial(IF st.parser.currentObject # 0 /\ splitNeeded(st, value)
                THEN fakeObject(st, value) ELSE st,
                value)

\* parse, case ChildObject, ChildGroup
parseChild(st, t, value) ==
    LET objs == CreateObject(st.Objects, t, value, st.parser.currentMaterial)
    IN [st EXCEPT !.Objects = objs,
                  !.parser.currentObjectName = value,
                  !.parser.currentObjectChildIndex = 0,
                  !.parser.currentObject = Len(objs)]

\* parse, case Face, Line, Point: "create a default object that is named
\* after the input file"
defaultObject(st, path) ==
    IF st.parser.currentObject # 0 THEN st
    ELSE [st EXCEPT
            !.Objects = CreateObject(@, ChildObject, fileBasename(path),
                                     st.parser.currentMaterial),
            !.parser.currentObject = Len(st.Objects) + 1]

\* mutant of attachVertexData: the smoothing group is attached and stays
\* pending
attachVertexData_Sticky(st, r) ==
    LET o == st.parser.currentObject
        group == st.parser.currentSmoothGroup
    IN IF r.err # "" THEN parseError(st, r.err)
       ELSE IF group # ""
       THEN [st EXCEPT
               !.Objects = [r.Objects EXCEPT
                              ![o].VertexData[Len(r.Objects[o].VertexData)].meta = group]]
       ELSE [st EXCEPT !.Objects = r.Objects]

\* parse, case Face, Line, Point, after ReadVertexData returned r: "attach
\* current smooth group and reset it"
attachVertexData(st, r) ==
    LET o == st.parser.currentObject
        group == st.parser.currentSmoothGroup
    IN IF r.err # "" THEN parseError(st, r.err)
       ELSE IF group # ""
       THEN [st EXCEPT
               !.Objects = [r.Objects EXCEPT
                              ![o].VertexData[Len(r.Objects[o].VertexData)].meta = group],
               !.parser.currentSmoothGroup = ""]
       ELSE [st EXCEPT !.Objects = r.Objects]

\* parse, case Face, Line, Point, with a current object
readVertexData(st, t, parts, strict) ==
    attachVertexData(st,
        ReadVertexData(st.Objects, st.parser.currentObject, st.values, st.Geometry,
                       t, parts, strict))

\* parse, case Face, Line, Point
parseVertexData(st, t, parts, strict, path) ==
    readVertexData(defaultObject(st, path), t, parts, strict)

\* parse, case Vertex, Normal, UV, Param, after ReadValue returned r
storeValue(st, r) ==
    IF r.err # "" THEN parseError(st, r.err)
    ELSE [st EXCEPT !.values = r.values, !.Geometry = r.Geometry]

\* parse, case Vertex, Normal, UV, Param
parseGeometry(st, t, parts, strict) ==
    storeValue(st, ReadValue(st.values, st.Geometry, t, parts, strict))

\* one turn of the loop of parse on the line scanned; the comments and the
\* material libraries of a document are not part of the state
parseLine(st, line, strict, path) ==
    LET counted == [st EXCEPT !.parser.linenum = @ + 1]
    IN CASE line.t = "" -> counted
         [] line.t \in {Comment, MtlLib} -> counted
         [] line.t \in Channels -> parseGeometry(counted, line.t, line.value, strict)
         [] line.t \in {ChildObject, ChildGroup} -> parseChild(counted, line.t, word(line))
         [] line.t = MtlUse -> parseMtlUse(counted, word(line))
         [] line.t \in {Face, Line, Point} ->
               parseVertexData(counted, line.t, line.value, strict, path)
         [] line.t = SmoothingGroup ->
               [counted EXCEPT !.parser.currentSmoothGroup = word(line)]
         [] OTHER -> parseError(counted, "unsupported")

-----------------------------------------------------------------------------
(* main: ParseFile, the processors, the writer *)

\* the number of elements of all objects
NumElements(objs) ==
    LET sum[k \in 0..Len(objs)] ==
            IF k = 0 THEN 0 ELSE sum[k - 1] + Len(objs[k].VertexData)
    IN sum[Len(objs)]

\* mutant of logFatalError: an error is logged and main goes on
logFatalError_Ignore(err) == "parse"

\* main: "if err != nil { logFatalError(err) }" ends the process (os.Exit)
logFatalError(err) == IF err # "" THEN "fatal" ELSE "parse"

\* the document and the locals of parse after a turn of its loop; on an
\* error parse returns no document and main ends in logFatalError
scanned(line, r) ==
    /\ \A t \in Channels : Len(r.Geometry[t]) <= MaxVals
    /\ Len(r.Objects) <= MaxObjs
    /\ input' = line
    /\ values' = r.values
    /\ Geometry' = r.Geometry
    /\ Objects' = r.Objects
    /\ parser' = r.parser
    /\ pc' = logFatalError(r.parser.err)
    /\ UNCHANGED <<StartParams, engine, output>>

\* scanner.Scan() delivers line and the loop of parse runs on it
scan(line) ==
    scanned(line, parseLine(parseState(values, Geometry, Objects, parser), line,
                            StartParams.Strict, StartParams.Input))

\* the end of the input: parse returns the document, main goes on to the
\* processors
ParseEnd ==
    /\ pc = "parse"
    /\ parser' = [parser EXCEPT !.returned = "obj"]
    /\ pc' = "duplicates"
    /\ UNCHANGED <<StartParams, values, Geometry, Objects, input, engine, output>>

\* main, the processor loop: Duplicates is disabled
SkipDuplicates ==
    /\ pc = "duplicates"
    /\ StartParams.NoDuplicates
    /\ pc' = "merge"
    /\ UNCHANGED <<StartParams, values, Geometry, Objects, parser, input, engine, output>>

\* main, the processor loop: Merge is disabled
SkipMerge ==
    /\ pc = "merge"
    /\ StartParams.NoMerge
    /\ pc' = "write"
    /\ UNCHANGED <<StartParams, values, Geometry, Objects, parser, input, engine, output>>

\* the state of main before ParseFile, for the given start parameters
InitMain(params) ==
    /\ pc = "parse"
    /\ StartParams = params
    /\ values = [t \in Channels |-> <<>>]
    /\ Geometry = [t \in Channels |-> <<>>]
    /\ Objects = <<>>
    /\ parser = parserIdle
    /\ input = emptyLine
    /\ engine = engineIdle
    /\ output = oldFile

\* the lines of the inputs with objects, groups and materials
ParseLines ==
    {geometryLine(Vertex, "0", "0", "0"),
     wordLine(ChildObject, "A"), wordLine(ChildGroup, "B"),
     wordLine(MtlUse, "m1"), wordLine(MtlUse, "m2"),
     SourceLine(Face, <<<<"1">>, <<"1">>, <<"1">>>>)}

\* parse reads a line of an input with objects, groups and materials
ParseLine ==
    /\ pc = "parse"
    /\ parser.linenum < MaxLines
    /\ \E line \in ParseLines : scan(line)

InitParse == InitMain(StartParamsDefault)

NextParse == ParseLine \/ ParseEnd

\* the parser on inputs with objects, groups, materials and faces
SpecParse == InitParse /\ [][NextParse]_vars

\* largest number of elements of the inputs that probe the references
MaxElems == 2

\* the texts of the non-zero indexes up to MaxRef, forwards and backwards
RefTexts == {ToString(r) : r \in (-MaxRef..MaxRef) \ {0}}

\* the same for the UV and Normal channels, which stay shorter
AuxTexts == {ToString(r) : r \in (-(MaxRef - 2)..(MaxRef - 2)) \ {0}}

\* the lines of the inputs that probe the references: a value for the
\* Vertex, UV and Normal channel; a point on any index, also 0; a line and
\* a face whose first part cites any UV or Normal; a line whose last part
\* is far out of bounds; the face of the last three vertices; a face with
\* a fifth part and a line with a third datapart, which are not read
RefLines ==
    {geometryLine(Vertex, "0", "0", "0"), SourceLine(UV, <<<<"0">>, <<"0">>>>),
     geometryLine(Normal, "0", "0", "1")}
    \cup {SourceLine(Point, <<<<r>>>>) : r \in RefTexts \cup {"0"}}
    \cup {SourceLine(Line, <<<<"-1", r>>, <<"-1">>>>) : r \in AuxTexts}
    \cup {SourceLine(Face, <<<<"-1", "", r>>, <<"-1">>, <<"-1">>>>) : r \in AuxTexts}
    \cup {SourceLine(Line, <<<<"-1">>, <<r>>>>) : r \in {ToString(-MaxRef), ToString(MaxRef)}}
    \cup {SourceLine(Face, <<<<"-1">>, <<"-2">>, <<"-3">>>>),
          SourceLine(Face, <<<<"-1">>, <<"-1">>, <<"-1">>, <<"-1">>, <<ToString(MaxRef)>>>>),
          SourceLine(Line, <<<<"-1", "", ToString(MaxRef)>>, <<"-1">>>>)}

\* parse reads a line of an input that probes the references; the UV and
\* Normal channels stay shorter than the Vertex channel may get
RefLine ==
    /\ pc = "parse"
    /\ parser.linenum < MaxLines
    /\ \E line \in RefLines :
         /\ line.t \in {Face, Line, Point} => NumElements(Objects) < MaxElems
         /\ line.t \in {UV, Normal} => Len(Geometry[line.t]) < MaxVals - 2
         /\ scan(line)

NextRefs == RefLine \/ ParseEnd

\* the parser on inputs whose elements cite values by every index
SpecRefs == InitParse /\ [][NextRefs]_vars

\* the lines of the inputs of the whole run: two Vertex values within
\* epsilon of each other, a point, an object, a material; a line with an
\* unknown keyword, a value that is no number, a point out of bounds
MainLines ==
    {geometryLine(Vertex, "0", "0", "0"), geometryLine(Vertex, "1", "0", "0"),
     SourceLine(Point, <<<<"-1">>>>),
     wordLine(ChildObject, "A"), wordLine(MtlUse, "m1"),
     wordLine("call", "a.obj"), geometryLine(Vertex, "0", "x", "0"),
     SourceLine(Point, <<<<ToString(MaxRef)>>>>)}

\* parse reads a line of an input of the whole run
MainLine ==
    /\ pc = "parse"
    /\ parser.linenum < MaxLines - 2
    /\ \E line \in MainLines : scan(line)

\* main with either processor enabled or disabled
InitRun ==
    \E noDuplicates, noMerge \in BOOLEAN :
        InitMain([StartParamsDefault EXCEPT !.NoDuplicates = noDuplicates,
                                            !.NoMerge = noMerge])

NextRun ==
    \/ MainLine
    \/ ParseEnd
    \/ SkipDuplicates
    \/ StartFind
    \/ \E t \in Channels : findDuplicates(t)
    \/ Apply
    \/ Compact
    \/ SkipMerge
    \/ ExecMerge
    \/ WriteFile

\* the whole run of main: parse, Duplicates, Merge, write
SpecMain == InitRun /\ [][NextRun]_vars

\* the loop of parse over lines, from line i on, until a line fails
RECURSIVE parseFrom(_, _, _, _, _)
parseFrom(st, lines, i, strict, path) ==
    IF i > Len(lines) \/ st.parser.err # "" THEN st
    ELSE parseFrom(parseLine(st, lines[i], strict, path), lines, i + 1, strict, path)

\* parse on a file that holds lines
parse(lines, strict, path) ==
    parseFrom(parseState([t \in Channels |-> <<>>], [t \in Channels |-> <<>>],
                         <<>>, parserIdle),
              lines, 1, strict, path)

\* the lines of the inputs that are written and read again: values with
\* three and with four components in the Vertex and the UV channel, a
\* normal, a face, a line and a point with and without UVs, a line that
\* names its last point twice, an object, a material, a smoothing group
RoundLines ==
    {geometryLine(Vertex, "0", "0", "0"),
     SourceLine(Vertex, <<<<"1">>, <<"0">>, <<"0">>, <<"2">>>>),
     SourceLine(UV, <<<<"0">>, <<"1">>>>), geometryLine(UV, "0", "1", "1"),
     geometryLine(Normal, "0", "0", "1"),
     SourceLine(Face, <<<<"1">>, <<"-1">>, <<"-1">>>>),
     SourceLine(Face, <<<<"-1", "-1", "-1">>, <<"-1", "", "-1">>, <<"1">>>>),
     SourceLine(Line, <<<<"1">>, <<"-1">>>>),
     SourceLine(Line, <<<<"1", "-1">>, <<"-1">>>>),
     SourceLine(Line, <<<<"1">>, <<"-1">>, <<"-1">>>>),
     SourceLine(Point, <<<<"-1">>>>), SourceLine(Point, <<<<"-1", "-1">>>>),
     wordLine(ChildObject, "A"), wordLine(MtlUse, "m1"),
     wordLine(SmoothingGroup, "1")}

\* parse reads a line of an input that is written and read again
RoundLine ==
    /\ pc = "parse"
    /\ parser.linenum < MaxLines - 2
    /\ \E line \in RoundLines : scan(line)

\* main with both processors disabled
InitRound ==
    InitMain([StartParamsDefault EXCEPT !.NoDuplicates = TRUE, !.NoMerge = TRUE])

NextRound == RoundLine \/ ParseEnd \/ SkipDuplicates \/ SkipMerge \/ WriteFile

\* parse and write, no processor in between
SpecRound == InitRound /\ [][NextRound]_vars

\* init, "-out": the output file of a run that is not given one
OutputPath(in) == [in EXCEPT !.name = @ \o ".simplified"]

\* the file that a second run reads is the file that the first run wrote
Second == StartParams.Input = OutputPath(InputPath)

\* the document as parse returns it, ready for the processors
parsed(r) ==
    /\ values' = r.values
    /\ Geometry' = r.Geometry
    /\ Objects' = r.Objects
    /\ parser' = [r.parser EXCEPT !.returned = IF r.parser.err = "" THEN "obj" ELSE "nil"]
    /\ pc' = IF r.parser.err = "" THEN "duplicates" ELSE "fatal"

\* the program is started again, on the file that the first run wrote and
\* with the same flags: ParseFile reads the whole file
Again ==
    /\ pc = "done"
    /\ ~Second
    /\ StartParams' = [StartParams EXCEPT !.Input = OutputPath(InputPath)]
    /\ parsed(parse(output.lines, StartParams.Strict, OutputPath(InputPath)))
    /\ engine' = engineIdle
    /\ UNCHANGED <<input, output>>

\* the lines of the inputs of two runs in a row: three Vertex values in a
\* chain of neighbours, a point, a line and a face on the last values, an
\* object, a material
TwiceLines ==
    {geometryLine(Vertex, "0", "0", "0"), geometryLine(Vertex, "2", "0", "0"),
     geometryLine(Vertex, "3", "0", "0"),
     SourceLine(Point, <<<<"-1">>>>), SourceLine(Line, <<<<"-1">>, <<"1">>>>),
     SourceLine(Face, <<<<"1">>, <<"-1">>, <<"-2">>>>),
     wordLine(ChildObject, "A"), wordLine(MtlUse, "m1")}

\* parse reads a line of an input of the first of two runs
TwiceLine ==
    /\ pc = "parse"
    /\ ~Second
    /\ parser.linenum < MaxLines - 2
    /\ \E line \in TwiceLines : scan(line)

InitTwice == InitMain(StartParamsDefault)

NextTwice ==
    \/ TwiceLine
    \/ ParseEnd
    \/ StartFind
    \/ \E t \in Channels : findDuplicates(t)
    \/ Apply
    \/ Compact
    \/ ExecMerge
    \/ WriteFile
    \/ Again

\* the whole run of main, and a second run on the file it wrote
SpecTwice == InitTwice /\ [][NextTwice]_vars

\* the numbers of workers of the runs that are compared ("-workers")
WorkerCounts == {1, 2, DefaultWorkers}

\* the lines of the inputs of the runs that are compared: three Vertex
\* values in a chain of neighbours, a point, an object, a material
DetLines ==
    {geometryLine(Vertex, "0", "0", "0"), geometryLine(Vertex, "2", "0", "0"),
     geometryLine(Vertex, "3", "0", "0"),
     SourceLine(Point, <<<<"-1">>>>),
     wordLine(ChildObject, "A"), wordLine(MtlUse, "m1")}

\* parse reads a line of an input of the runs that are compared
DetLine ==
    /\ pc = "parse"
    /\ parser.linenum < MaxLines - 2
    /\ \E line \in DetLines : scan(line)

\* main with one, two or four workers, either processor enabled or disabled
InitDet ==
    \E workers \in WorkerCounts, noDuplicates, noMerge \in BOOLEAN :
        InitMain([StartParamsDefault EXCEPT !.Workers = workers,
                                            !.NoDuplicates = noDuplicates,
                                            !.NoMerge = noMerge])

NextDet ==
    \/ DetLine
    \/ ParseEnd
    \/ SkipDuplicates
    \/ StartFind
    \/ \E t \in Channels : findDuplicates(t)
    \/ Apply
    \/ Compact
    \/ SkipMerge
    \/ ExecMerge
    \/ WriteFile

\* the whole run of main under every configuration
SpecDet == InitDet /\ [][NextDet]_vars

\* the lines of the inputs with errors: an empty line, a comment, a value,
\* a point; a line with an unknown keyword, a value with a component that
\* is no number, a point with an index that is no number, a point out of
\* bounds, a normal with a fourth component, a face with a fifth part
ErrLines ==
    {emptyLine, wordLine(Comment, "c"),
     geometryLine(Vertex, "0", "0", "0"), SourceLine(Point, <<<<"-1">>>>),
     wordLine("call", "a.obj"), geometryLine(Vertex, "0", "x", "0"),
     SourceLine(Point, <<<<"x">>>>), SourceLine(Point, <<<<ToString(MaxRef)>>>>),
     SourceLine(Normal, <<<<"0">>, <<"0">>, <<"1">>, <<"1">>>>),
     SourceLine(Face, <<<<"-1">>, <<"-1">>, <<"-1">>, <<"-1">>, <<"-1">>>>)}

\* parse reads a line of an input with errors
ErrLine ==
    /\ pc = "parse"
    /\ parser.linenum < MaxLines
    /\ \E line \in ErrLines :
         /\ line.t \in {Face, Line, Point} => NumElements(Objects) < MaxElems
         /\ scan(line)

\* main before ParseFile, strict or not
InitErr ==
    \E strict \in BOOLEAN : InitMain([StartParamsDefault EXCEPT !.Strict = strict])

NextErr == ErrLine \/ ParseEnd

\* the parser on inputs with errors, strict and not
SpecErr == InitErr /\ [][NextErr]_vars

\* the geometry lines of the inputs that probe the strict mode: values
\* with three, four and five components in the Vertex channel, with two,
\* three and four in the Normal and the UV channel, a value whose fifth
\* component is no number
StrictValues ==
    {geometryLine(Vertex, "0", "0", "0"),
     SourceLine(Vertex, <<<<"0">>, <<"0">>, <<"0">>, <<"2">>>>),
     SourceLine(Vertex, <<<<"0">>, <<"0">>, <<"0">>, <<"2">>, <<"3">>>>),
     SourceLine(Vertex, <<<<"0">>, <<"0">>, <<"0">>, <<"2">>, <<"x">>>>),
     geometryLine(Normal, "0", "0", "1"),
     SourceLine(Normal, <<<<"0">>, <<"0">>, <<"1">>, <<"2">>>>),
     SourceLine(UV, <<<<"0">>, <<"1">>>>),
     SourceLine(UV, <<<<"0">>, <<"1">>, <<"0">>, <<"2">>>>)}

\* the element lines of the inputs that probe the strict mode: faces of
\* one, two, three, four and five parts, a face with a fourth datapart that
\* is a number, empty, no number, a face whose fifth part is no number;
\* lines with one, two and three dataparts, the third a number, empty, no
\* number; points with one, two and three dataparts
StrictElements ==
    {SourceLine(Face, <<<<"1">>>>),
     SourceLine(Face, <<<<"1">>, <<"1">>>>),
     SourceLine(Face, <<<<"1">>, <<"1">>, <<"1">>>>),
     SourceLine(Face, <<<<"1">>, <<"1">>, <<"1">>, <<"1">>>>),
     SourceLine(Face, <<<<"1">>, <<"1">>, <<"1">>, <<"1">>, <<"1">>>>),
     SourceLine(Face, <<<<"1">>, <<"1">>, <<"1">>, <<"1">>, <<"x">>>>),
     SourceLine(Face, <<<<"1", "1", "1", "1">>, <<"1">>, <<"1">>>>),
     SourceLine(Face, <<<<"1", "1", "1", "">>, <<"1">>, <<"1">>>>),
     SourceLine(Face, <<<<"1", "1", "1", "x">>, <<"1">>, <<"1">>>>),
     SourceLine(Line, <<<<"1">>, <<"1">>>>),
     SourceLine(Line, <<<<"1", "1">>, <<"1">>>>),
     SourceLine(Line, <<<<"1", "1", "1">>, <<"1">>>>),
     SourceLine(Line, <<<<"1", "1", "">>, <<"1">>>>),
     SourceLine(Line, <<<<"1", "1", "x">>, <<"1">>>>),
     SourceLine(Point, <<<<"1">>>>),
     SourceLine(Point, <<<<"1", "1">>>>),
     SourceLine(Point, <<<<"1", "1", "1">>>>)}

\* parse reads a line of an input that probes the strict mode
StrictLine ==
    /\ pc = "parse"
    /\ parser.linenum < MaxLines - 1
    /\ \/ \E line \in StrictValues :
            /\ Len(Geometry[line.t]) < MaxVals - 1
            /\ scan(line)
       \/ \E line \in StrictElements :
            /\ NumElements(Objects) < MaxElems
            /\ scan(line)

NextStrict == StrictLine \/ ParseEnd

\* the parser, strict and not, on inputs with more components, parts and
\* dataparts than a line may hold
SpecStrict == InitErr /\ [][NextStrict]_vars

\* the lines of the inputs with markers: a value, a face and a point of
\* it; an object with a name, an object and a group without; two
\* materials; two smoothing groups and a smoothing-group line without a
\* value
MarkLines ==
    {geometryLine(Vertex, "0", "0", "0"),
     SourceLine(Face, <<<<"1">>, <<"1">>, <<"1">>>>), SourceLine(Point, <<<<"1">>>>),
     wordLine(ChildObject, "A"), wordLine(ChildObject, ""), wordLine(ChildGroup, ""),
     wordLine(MtlUse, "m1"), wordLine(MtlUse, "m2"),
     wordLine(SmoothingGroup, "1"), wordLine(SmoothingGroup, "2"),
     wordLine(SmoothingGroup, "")}

\* parse reads a line of an input with markers
MarkLine ==
    /\ pc = "parse"
    /\ parser.linenum < MaxLines
    /\ \E line \in MarkLines :
         /\ line.t \in {Face, Line, Point} => NumElements(Objects) < MaxElems + 1
         /\ line.t = Vertex => Len(Geometry[Vertex]) < MaxVals - 2
         /\ scan(line)

NextMarks == MarkLine \/ ParseEnd

\* the parser on inputs with object, group, material and smoothing-group
\* markers
SpecMarks == InitParse /\ [][NextMarks]_vars

\* the parts of the payloads of the geometry lines that probe the spaces:
\* a number, a negative zero, and the empty part that strings.Split yields
\* between two spaces in a row
TokenTexts == {"1", "-0", ""}

\* the payloads of up to MaxCoord parts: TrimSpace leaves no space at
\* either end, so the first and the last part are not empty
TokenPayloads ==
    UNION {{parts \in [1..n -> TokenTexts] : parts[1] # "" /\ parts[n] # ""} :
              n \in 1..MaxCoord}

\* parse reads a geometry line whose numbers may be two spaces apart
TokenLine ==
    /\ pc = "parse"
    /\ parser.linenum < MaxVals - 2
    /\ \E t \in {Vertex, Normal} : \E parts \in TokenPayloads :
          scan(SourceLine(t, [k \in DOMAIN parts |-> <<parts[k]>>]))

\* main before ParseFile, strict or not
InitTokens ==
    \E strict \in BOOLEAN : InitMain([StartParamsDefault EXCEPT !.Strict = strict])

NextTokens == TokenLine \/ ParseEnd

\* parse on the geometry lines that probe the spaces
SpecTokens == InitTokens /\ [][NextTokens]_vars

-----------------------------------------------------------------------------
(* findDuplicates, pass by pass: the goroutine of a channel as the steps of *)
(* its loops.  engine.run holds its locals: the stage it is in, the ranges  *)
(* of the scan workers, the workers still running (wgInternal), the list    *)
(* results, and the loop counters i1 and i2 (counted from 1).               *)

runIdle ==
    [stage |-> "start", ranges |-> <<>>, wgInternal |-> {}, arrived |-> <<>>,
     results |-> <<>>, i1 |-> 0, i2 |-> 0]

\* findDuplicates, the loop "for iter := 0; iter < StartParams.Workers":
\* the ranges are computed and a scan worker is started on each
StartWorkers(t) ==
    /\ engine.phase = "find"
    /\ t \in engine.wg
    /\ engine.run.stage = "start"
    /\ LET ranges == workerRanges(Len(Geometry[t]), StartParams.Workers, 0)
       IN engine' = [engine EXCEPT !.run.stage = "scan",
                                   !.run.ranges = ranges,
                                   !.run.wgInternal = DOMAIN ranges]
    /\ UNCHANGED <<pc, StartParams, values, Geometry, Objects, parser, input, output>>

\* a scan worker, "go processSlice(start, end, slice, wgInternal)": it
\* scans its range, appends what it found to results and is done
ScanWorker(t) ==
    /\ engine.phase = "find"
    /\ t \in engine.wg
    /\ engine.run.stage = "scan"
    /\ \E w \in engine.run.wgInternal :
         engine' = [engine EXCEPT
            !.run.results = @ \o processSlice(values[t], engine.run.ranges[w][1],
                                              engine.run.ranges[w][2], Geometry[t],
                                              StartParams.Epsilon),
            !.run.wgInternal = @ \ {w}]
    /\ UNCHANGED <<pc, StartParams, values, Geometry, Objects, parser, input, output>>

\* findDuplicates after wgInternal.Wait(): it returns if nothing was found,
\* else the list is sorted and the 1st run starts
SortResults(t) ==
    /\ engine.phase = "find"
    /\ t \in engine.wg
    /\ engine.run.stage = "scan"
    /\ engine.run.wgInternal = {}
    /\ IF Len(engine.run.results) = 0
       THEN engine' = [engine EXCEPT !.run.stage = "done", !.wg = @ \ {t}]
       ELSE engine' = [engine EXCEPT !.run.stage = "merge",
                                     !.run.arrived = engine.run.results,
                                     !.run.results = sortByIndex(@),
                                     !.run.i1 = 1, !.run.i2 = 2]
    /\ UNCHANGED <<pc, StartParams, values, Geometry, Objects, parser, input, output>>

\* the locals after the inner loop has ended for i1, by its condition or
\* by break
nextOuter(run, rs) == [run EXCEPT !.results = rs, !.i1 = @ + 1, !.i2 = run.i1 + 2]

\* the locals after a turn of the inner loop that does not break
nextInner(run, rs) == [run EXCEPT !.results = rs, !.i2 = @ + 1]

\* the locals after a turn of the loops of a run on the pair r1, r2 that
\* the turn left as m
afterTurn(run, m) ==
    LET rs == [run.results EXCEPT ![run.i1] = m[1], ![run.i2] = m[2]]
    IN IF ~hasItems(m[1]) THEN nextOuter(run, rs) ELSE nextInner(run, rs)

\* 1st run: merge, one turn of its loops; after the last turn the
\* replacers with items are gathered into nonemptyMerged and the 2nd run
\* starts
MergeTurn(t) ==
    /\ engine.phase = "find"
    /\ t \in engine.wg
    /\ engine.run.stage = "merge"
    /\ LET run == engine.run
           rs == run.results
       IN engine' = [engine EXCEPT !.run =
            IF run.i1 > Len(rs)
            THEN [run EXCEPT !.stage = "deduplicate", !.results = nonempty(rs),
                             !.i1 = 1, !.i2 = 2]
            ELSE IF ~hasItems(rs[run.i1]) \/ run.i2 > Len(rs)
            THEN nextOuter(run, rs)
            ELSE IF /\ hasItems(rs[run.i2])
                    /\ hasItems(rs[run.i1])
                    /\ rs[run.i2].ref \in rs[run.i1].replaces
            THEN afterTurn(run, Merge(values[t], rs[run.i1], rs[run.i2]))
            ELSE nextInner(run, rs)]
    /\ UNCHANGED <<pc, StartParams, values, Geometry, Objects, parser, input, output>>

\* 2nd run: deduplicate, one turn of its loops; after the last turn the
\* replacers with items are gathered into nonemptyFinal and handed to the
\* callback; wgMain.Done()
DeduplicateTurn(t) ==
    /\ engine.phase = "find"
    /\ t \in engine.wg
    /\ engine.run.stage = "deduplicate"
    /\ LET run == engine.run
           rs == run.results
       IN IF run.i1 > Len(rs)
          THEN engine' = [engine EXCEPT
                            !.run.stage = "done",
                            !.run.results = nonempty(rs),
                            !.results[t] = [called |-> TRUE, Items |-> nonempty(rs)],
                            !.wg = @ \ {t}]
          ELSE engine' = [engine EXCEPT !.run =
                 IF ~hasItems(rs[run.i1]) \/ run.i2 > Len(rs)
                 THEN nextOuter(run, rs)
                 ELSE IF hasItems(rs[run.i2])
                 THEN afterTurn(run, deduplicate(values[t], rs[run.i1], rs[run.i2]))
                 ELSE nextInner(run, rs)]
    /\ UNCHANGED <<pc, StartParams, values, Geometry, Objects, parser, input, output>>

\* the worker counts of the runs that are followed pass by pass
FindWorkers == {1, 2, DefaultWorkers}

\* the components of the Vertex values of these runs: the value (2, 2) is
\* within epsilon of (0, 0), (4, 0) and (0, 3), no two of which are within
\* epsilon of each other; (0, 3) is closer to it than the other two
FindVals ==
    {<<0, 0, 0, 1>>, <<4, 0, 0, 1>>, <<0, 3, 0, 1>>, <<2, 2, 0, 1>>}

\* Execute has started the goroutine of the Vertex channel, on a document
\* whose Vertex values are each cited by a point
InitFind ==
    \E n \in 1..(MaxVals + 1) : \E vs \in [1..n -> FindVals] : \E workers \in FindWorkers :
      /\ values = [t \in Channels |-> IF t = Vertex THEN heapOf(vs) ELSE <<>>]
      /\ Geometry = [t \in Channels |-> IF t = Vertex THEN [i \in 1..n |-> i] ELSE <<>>]
      /\ Objects = <<[Object(ChildObject, "A", "") EXCEPT !.VertexData =
                        [i \in 1..n |-> VertexData(Point, <<resolved(i, 0, 0)>>)]]>>
      /\ StartParams = [StartParamsDefault EXCEPT !.Workers = workers]
      /\ pc = "duplicates"
      /\ parser = parserIdle
      /\ input = emptyLine
      /\ engine = [phase |-> "find", wg |-> {Vertex},
                   results |-> [t \in Channels |-> noResult], run |-> runIdle]
      /\ output = oldFile

NextFind ==
    \/ \E t \in Channels : StartWorkers(t)
    \/ \E t \in Channels : ScanWorker(t)
    \/ \E t \in Channels : SortResults(t)
    \/ \E t \in Channels : MergeTurn(t)
    \/ \E t \in Channels : DeduplicateTurn(t)
    \/ Apply
    \/ Compact

\* the Duplicates processor with the goroutine of the Vertex channel
\* followed pass by pass
SpecFind == InitFind /\ [][NextFind]_vars

-----------------------------------------------------------------------------
(* Duplicates.Execute with its locks: main, the goroutine of every channel  *)
(* and its scan workers as threads.  engine.mResults is the lock of Execute *)
(* and engine.go[t] the locals of findDuplicates(t, ...): its stage, its    *)
(* lock mResults, the shared list results, the scan workers, the counters   *)
(* i1 and i2 of the two runs and the number of calls of wgMain.Done().      *)
(* The holder of a lock is 0 when it is not held, -1 for the thread that    *)
(* declared it (main, the goroutine), and k for the k-th thread it started  *)
(* (the goroutine of GeometryTypes[k], the k-th scan worker).               *)

Unlocked == 0

\* mutant of canLock: Lock() returns while the lock is held
canLock_Always(m) == TRUE

\* mResults.Lock() returns only when the lock is not held
canLock(m) == m = Unlocked

typeIndex(t) == CHOOSE k \in DOMAIN GeometryTypes : GeometryTypes[k] = t

\* a scan worker as "go processSlice(start, end, slice, wgInternal)"
\* starts it: first is the loop counter, 0-based as in the code
scanWorker(range) ==
    [pc |-> "scan", first |-> range[1], subend |-> range[2],
     innerResults |-> <<>>, appended |-> 0]

goIdle ==
    [stage |-> "none", mResults |-> Unlocked, results |-> <<>>, workers |-> <<>>,
     i1 |-> 0, i2 |-> 0, found |-> <<>>, dones |-> 0]

execIdle ==
    [phase |-> "idle", wg |-> {}, results |-> [t \in Channels |-> noResult],
     mResults |-> Unlocked, next |-> 1, go |-> [t \in Channels |-> goIdle]]

\* the channels after position k of the loop "start goroutines" that hold
\* values
toStart(k) == {j \in k..Len(GeometryTypes) : Len(Geometry[GeometryTypes[j]]) > 0}

\* Execute, "find duplicated": mResults.Lock()
ExecLock ==
    /\ pc = "duplicates"
    /\ engine.phase = "idle"
    /\ canLock(engine.mResults)
    /\ engine' = [engine EXCEPT !.phase = "start", !.mResults = -1]
    /\ UNCHANGED <<pc, StartParams, values, Geometry, Objects, parser, input, output>>

\* Execute, "start goroutines": wg.Add(1) and "go findDuplicates(t, ...)"
\* for the next channel that holds values
ExecGo ==
    /\ engine.phase = "start"
    /\ toStart(engine.next) # {}
    /\ LET k == CHOOSE j \in toStart(engine.next) :
                    \A i \in toStart(engine.next) : j <= i
           t == GeometryTypes[k]
       IN engine' = [engine EXCEPT !.wg = @ \cup {t},
                                   !.go[t].stage = "start",
                                   !.next = k + 1]
    /\ UNCHANGED <<pc, StartParams, values, Geometry, Objects, parser, input, output>>

\* mutant of ExecUnlock: main goes on to wg.Wait() with the lock held
ExecUnlock_Held ==
    /\ engine.phase = "start"
    /\ toStart(engine.next) = {}
    /\ engine' = [engine EXCEPT !.phase = "find"]
    /\ UNCHANGED <<pc, StartParams, values, Geometry, Objects, parser, input, output>>

\* Execute after the loop: mResults.Unlock(), then wg.Wait()
ExecUnlock ==
    /\ engine.phase = "start"
    /\ toStart(engine.next) = {}
    /\ engine' = [engine EXCEPT !.phase = "find", !.mResults = Unlocked]
    /\ UNCHANGED <<pc, StartParams, values, Geometry, Objects, parser, input, output>>

\* findDuplicates, the loop that starts the scan workers
GoStart(t) ==
    /\ engine.go[t].stage = "start"
    /\ LET ranges == workerRanges(Len(Geometry[t]), StartParams.Workers, 0)
       IN engine' = [engine EXCEPT
            !.go[t].stage = "scan",
            !.go[t].workers = [w \in DOMAIN ranges |-> scanWorker(ranges[w])]]
    /\ UNCHANGED <<pc, StartParams, values, Geometry, Objects, parser, input, output>>

\* processSlice, one turn of "for first := substart; first < subend":
\* the replacer of first goes to innerResults if it has hits
Scan(t, w) ==
    /\ engine.go[t].stage = "scan"
    /\ w \in DOMAIN engine.go[t].workers
    /\ LET worker == engine.go[t].workers[w]
       IN /\ worker.pc = "scan"
          /\ worker.first < worker.subend
          /\ engine' = [engine EXCEPT !.go[t].workers[w] =
                [worker EXCEPT
                    !.innerResults = @ \o processSlice(values[t], worker.first,
                                          worker.first + 1, Geometry[t],
                                          StartParams.Epsilon),
                    !.first = @ + 1]]
    /\ UNCHANGED <<pc, StartParams, values, Geometry, Objects, parser, input, output>>

\* processSlice after its loop, appendResults: mResults.Lock()
AppendLock(t, w) ==
    /\ engine.go[t].stage = "scan"
    /\ w \in DOMAIN engine.go[t].workers
    /\ engine.go[t].workers[w].pc = "scan"
    /\ engine.go[t].workers[w].first >= engine.go[t].workers[w].subend
    /\ canLock(engine.go[t].mResults)
    /\ engine' = [engine EXCEPT !.go[t].workers[w].pc = "locked",
                                !.go[t].mResults = w]
    /\ UNCHANGED <<pc, StartParams, values, Geometry, Objects, parser, input, output>>

\* appendResults under the lock: the replacers of innerResults are appended
\* to results; mResults.Unlock(), subwg.Done()
AppendUnlock(t, w) ==
    /\ engine.go[t].stage = "scan"
    /\ w \in DOMAIN engine.go[t].workers
    /\ engine.go[t].workers[w].pc = "locked"
    /\ engine' = [engine EXCEPT
            !.go[t].results = @ \o nonempty(engine.go[t].workers[w].innerResults),
            !.go[t].mResults = Unlocked,
            !.go[t].workers[w].appended = @ + 1,
            !.go[t].workers[w].pc = "done"]
    /\ UNCHANGED <<pc, StartParams, values, Geometry, Objects, parser, input, output>>

\* the scan workers of channel t that have not called subwg.Done()
wgInternal(t) ==
    {w \in DOMAIN engine.go[t].workers : engine.go[t].workers[w].pc # "done"}

\* findDuplicates returns: the deferred mResults.Unlock() and wgMain.Done()
returned(e, t) ==
    [e EXCEPT !.go[t].stage = "done", !.go[t].mResults = Unlocked,
              !.go[t].dones = @ + 1, !.wg = @ \ {t}]

\* findDuplicates after wgInternal.Wait(): mResults.Lock(); it returns if
\* nothing was found, else the list is sorted and the 1st run starts
GoWait(t) ==
    /\ engine.go[t].stage = "scan"
    /\ wgInternal(t) = {}
    /\ canLock(engine.go[t].mResults)
    /\ IF Len(engine.go[t].results) = 0
       THEN engine' = returned(engine, t)
       ELSE engine' = [engine EXCEPT
               !.go[t].stage = "merge",
               !.go[t].mResults = -1,
               !.go[t].results = sortByIndex(@),
               !.go[t].i1 = 1, !.go[t].i2 = 2]
    /\ UNCHANGED <<pc, StartParams, values, Geometry, Objects, parser, input, output>>

\* 1st run: merge, one turn of its loops; after the last turn the
\* replacers with items are gathered and the 2nd run starts
GoMerge(t) ==
    /\ engine.go[t].stage = "merge"
    /\ LET run == engine.go[t]
           rs == run.results
       IN engine' = [engine EXCEPT !.go[t] =
            IF run.i1 > Len(rs)
            THEN [run EXCEPT !.stage = "deduplicate", !.results = nonempty(rs),
                             !.i1 = 1, !.i2 = 2]
            ELSE IF ~hasItems(rs[run.i1]) \/ run.i2 > Len(rs)
            THEN nextOuter(run, rs)
            ELSE IF /\ hasItems(rs[run.i2])
                    /\ hasItems(rs[run.i1])
                    /\ rs[run.i2].ref \in rs[run.i1].replaces
            THEN afterTurn(run, Merge(values[t], rs[run.i1], rs[run.i2]))
            ELSE nextInner(run, rs)]
    /\ UNCHANGED <<pc, StartParams, values, Geometry, Objects, parser, input, output>>

\* 2nd run: deduplicate, one turn of its loops; after the last turn the
\* replacers with items are gathered and the callback is called
GoDeduplicate(t) ==
    /\ engine.go[t].stage = "deduplicate"
    /\ LET run == engine.go[t]
           rs == run.results
       IN engine' = [engine EXCEPT !.go[t] =
            IF run.i1 > Len(rs)
            THEN [run EXCEPT !.stage = "callback", !.found = nonempty(rs)]
            ELSE IF ~hasItems(rs[run.i1]) \/ run.i2 > Len(rs)
            THEN nextOuter(run, rs)
            ELSE IF hasItems(rs[run.i2])
            THEN afterTurn(run, deduplicate(values[t], rs[run.i1], rs[run.i2]))
            ELSE nextInner(run, rs)]
    /\ UNCHANGED <<pc, StartParams, values, Geometry, Objects, parser, input, output>>

\* setResults: mResults.Lock() on the lock of Execute
SetResultsLock(t) ==
    /\ engine.go[t].stage = "callback"
    /\ canLock(engine.mResults)
    /\ engine' = [engine EXCEPT !.go[t].stage = "store",
                                !.mResults = typeIndex(t)]
    /\ UNCHANGED <<pc, StartParams, values, Geometry, Objects, parser, input, output>>

\* setResults under the lock: results[result.Type] = result,
\* mResults.Unlock(); findDuplicates returns
SetResultsStore(t) ==
    /\ engine.go[t].stage = "store"
    /\ engine' = returned([engine EXCEPT
            !.results[t] = [called |-> TRUE, Items |-> engine.go[t].found],
            !.mResults = Unlocked], t)
    /\ UNCHANGED <<pc, StartParams, values, Geometry, Objects, parser, input, output>>

\* the worker counts of the runs with locks
ExecWorkers == {1, 2}

\* the components of the values of these runs: two values that are not
\* within epsilon of each other
ExecVals == {<<0, 0, 0, 1>>, <<4, 0, 0, 1>>}

\* main is about to call Execute on a document with Vertex values, each
\* cited by a point, and with no Normal value or two that are equal
InitExec ==
    \E n \in 1..MaxVals : \E vs \in [1..n -> ExecVals] :
    \E normals \in {0, 2} : \E workers \in ExecWorkers :
      /\ values = [t \in Channels |->
                     IF t = Vertex THEN heapOf(vs)
                     ELSE IF t = Normal THEN heapOf([i \in 1..normals |-> <<0, 0, 4, 0>>])
                     ELSE <<>>]
      /\ Geometry = [t \in Channels |-> [i \in DOMAIN values[t] |-> i]]
      /\ Objects = <<[Object(ChildObject, "A", "") EXCEPT !.VertexData =
                        [i \in 1..n |-> VertexData(Point, <<resolved(i, 0, 0)>>)]]>>
      /\ StartParams = [StartParamsDefault EXCEPT !.Workers = workers]
      /\ pc = "duplicates"
      /\ parser = parserIdle
      /\ input = emptyLine
      /\ engine = execIdle
      /\ output = oldFile

NextExec ==
    \/ ExecLock
    \/ ExecGo
    \/ ExecUnlock
    \/ \E t \in Channels : GoStart(t)
    \/ \E t \in Channels : \E w \in 1..DefaultWorkers : Scan(t, w)
    \/ \E t \in Channels : \E w \in 1..DefaultWorkers : AppendLock(t, w)
    \/ \E t \in Channels : \E w \in 1..DefaultWorkers : AppendUnlock(t, w)
    \/ \E t \in Channels : GoWait(t)
    \/ \E t \in Channels : GoMerge(t)
    \/ \E t \in Channels : GoDeduplicate(t)
    \/ \E t \in Channels : SetResultsLock(t)
    \/ \E t \in Channels : SetResultsStore(t)
    \/ Apply
    \/ Compact

\* the Duplicates processor with its threads and locks
SpecExec == InitExec /\ [][NextExec]_vars

\* the same under the scheduler of the runtime: as long as some thread can
\* take a step, some thread does
SpecExecFair == SpecExec /\ WF_vars(NextExec)

-----------------------------------------------------------------------------
(* properties of the Duplicates processor *)

RefChannels == {Vertex, UV, Normal}

\* Execute has returned
DupDone == engine.phase = "done"

\* every Declaration of the document
AllDecls == {DeclAt(Objects, pl) : pl \in DeclPlaces(Objects)}

\* the values i and j of channel t are within epsilon of each other
Near(t, i, j) == Equals(values[t][i], values[t][j], StartParams.Epsilon)

\* the value i of channel t is still in the channel's array
Survives(t, i) == i \in Range(Geometry[t])

\* some Declaration referenced the value i of channel t when it was parsed
Referenced(t, i) == \E d \in AllDecls : RawIndex(d, t) = i

\* C1: after Execute, in every channel the k-th value of the array has
\* Index k, and every pointer of a Declaration is a member of its channel's
\* array, at the position Declaration.Index gives, which lies in 1..N
C1_DenseAndResolved ==
    DupDone =>
        /\ \A t \in Channels : \A k \in DOMAIN Geometry[t] :
              values[t][Geometry[t][k]].Index = k
        /\ \A d \in AllDecls : \A t \in RefChannels :
              RefOf(d, t) # 0 =>
                 /\ Survives(t, RefOf(d, t))
                 /\ DeclIndex(values, d, t) \in 1..Len(Geometry[t])
                 /\ Geometry[t][DeclIndex(values, d, t)] = RefOf(d, t)

\* C1 witness: Execute has returned, a Vertex value was dropped, a
\* Declaration was repointed and a surviving referenced value changed Index
C1_Witness ==
    /\ DupDone
    /\ Len(Geometry[Vertex]) < Len(values[Vertex])
    /\ \E d \in AllDecls : d.RefVertex # d.Vertex
    /\ \E d \in AllDecls : d.RefVertex = d.Vertex /\ DeclIndex(values, d, Vertex) # d.Vertex

\* the values of channel t within epsilon of value i, i among them
Cluster(t, i) == {k \in DOMAIN values[t] : Near(t, i, k)}

\* the cluster of i is closed: its members are pairwise within epsilon and
\* no other value of the channel is within epsilon of a member
Closed(t, i) == \A a \in Cluster(t, i) : Cluster(t, a) = Cluster(t, i)

Earliest(t, i) == CHOOSE m \in Cluster(t, i) : \A k \in Cluster(t, i) : m <= k

Chain(t, a, c) ==
    /\ ~Near(t, a, c)
    /\ \E b \in DOMAIN values[t] : Near(t, a, b) /\ Near(t, b, c)

\* C3 as stated: references to A and references to C of a chain A - B - C
\* never end up on the same surviving value
C3_Original ==
    DupDone =>
        \A t \in RefChannels : \A d1, d2 \in AllDecls :
            (/\ RawIndex(d1, t) # 0
             /\ RawIndex(d2, t) # 0
             /\ Chain(t, RawIndex(d1, t), RawIndex(d2, t)))
                => RefOf(d1, t) # RefOf(d2, t)

\* C3 amended: references to A and references to C of a chain A - B - C end
\* up on the same surviving value only if that value is within epsilon of
\* both A and C (so it is neither A nor C)
C3_SharedOnlyIfNearBoth ==
    DupDone =>
        \A t \in RefChannels : \A d1, d2 \in AllDecls :
            (/\ RawIndex(d1, t) # 0
             /\ RawIndex(d2, t) # 0
             /\ Chain(t, RawIndex(d1, t), RawIndex(d2, t))
             /\ RefOf(d1, t) = RefOf(d2, t))
                => /\ Near(t, RawIndex(d1, t), RefOf(d1, t))
                   /\ Near(t, RawIndex(d2, t), RefOf(d2, t))

\* C3 witness: Execute has returned, references to the two ends of a chain
\* share their surviving value
C3_Witness ==
    /\ DupDone
    /\ \E d1, d2 \in AllDecls :
          /\ Chain(Vertex, d1.Vertex, d2.Vertex)
          /\ d1.RefVertex = d2.RefVertex

\* C4: whenever a result lists a value as replaced by a representative, each
\* of x, y, z and w of the two differs by at most epsilon
C4_Componentwise ==
    \A t \in Channels : \A k \in DOMAIN engine.results[t].Items :
        \A m \in engine.results[t].Items[k].replaces :
            LET a == values[t][engine.results[t].Items[k].ref]
                b == values[t][m]
            IN /\ a.X - b.X <= StartParams.Epsilon /\ b.X - a.X <= StartParams.Epsilon
               /\ a.Y - b.Y <= StartParams.Epsilon /\ b.Y - a.Y <= StartParams.Epsilon
               /\ a.Z - b.Z <= StartParams.Epsilon /\ b.Z - a.Z <= StartParams.Epsilon
               /\ a.W - b.W <= StartParams.Epsilon /\ b.W - a.W <= StartParams.Epsilon

\* C4 witness: a result replaces a Vertex value in a channel that also
\* holds a value equal to the representative but for z, 1.5 epsilon away,
\* and that value is not replaced
C4_Witness ==
    /\ engine.results[Vertex].called
    /\ \E k \in DOMAIN engine.results[Vertex].Items :
          LET r == engine.results[Vertex].Items[k]
          IN /\ r.replaces # {}
             /\ \E j \in DOMAIN values[Vertex] :
                   /\ values[Vertex][j].X = values[Vertex][r.ref].X
                   /\ values[Vertex][j].Y = values[Vertex][r.ref].Y
                   /\ values[Vertex][j].W = values[Vertex][r.ref].W
                   /\ 2 * Abs(values[Vertex][j].Z - values[Vertex][r.ref].Z)
                         = 3 * StartParams.Epsilon
                   /\ j \notin r.replaces

\* i and j are the one pair of values of channel t within epsilon of each
\* other, i the earlier
OnePair(t, i, j) ==
    /\ i < j
    /\ Near(t, i, j)
    /\ \A a, b \in DOMAIN values[t] : (a < b /\ Near(t, a, b)) => (a = i /\ b = j)

\* C14: when exactly one pair i < j of the N values of a channel is
\* within epsilon, Execute leaves N - 1 values in the channel: i survives,
\* j is removed, every other value stays.
C14_OnePairRemoved ==
    DupDone =>
        \A t \in Channels : \A i, j \in DOMAIN values[t] :
            OnePair(t, i, j) =>
                /\ Len(Geometry[t]) = Len(values[t]) - 1
                /\ \A k \in DOMAIN values[t] : Survives(t, k) <=> k # j

\* every element of the document, as <<object, element>>
Elements ==
    {<<o, e>> \in (DOMAIN Objects) \X (1..MaxVals) : e \in DOMAIN Objects[o].VertexData}

\* the value that a Declaration that cited the value i of channel t is to
\* point to after Execute: the ref of the replacer that holds i, if any
Canonical(t, i) ==
    IF \E k \in DOMAIN engine.results[t].Items : i \in engine.results[t].Items[k].replaces
    THEN LET k == CHOOSE k \in DOMAIN engine.results[t].Items :
                      i \in engine.results[t].Items[k].replaces
         IN engine.results[t].Items[k].ref
    ELSE i

\* C15: the Duplicates processor keeps the lines and the points and treats
\* them as it treats the faces: no document with a line or a point ends
\* the program, the element stays a line or a point of as many
\* declarations, and after Execute every Vertex and UV pointer of a
\* declaration of a line, a point or a face that cited a replaced value
\* points to the value that replaces it.
C15_LinesAndPoints ==
    /\ pc # "fatal"
    /\ \A el \in Elements :
          LET vt == Objects[el[1]].VertexData[el[2]]
          IN /\ vt.Type = kindOf(Len(vt.Decls))
             /\ DupDone => \A k \in DOMAIN vt.Decls : \A t \in {Vertex, UV} :
                   RefOf(vt.Decls[k], t) = Canonical(t, RawIndex(vt.Decls[k], t))

\* C15 witness: Execute has returned on a document with a line of which
\* one declaration had its Vertex pointer and one its UV pointer moved to
\* another value
C15_Witness ==
    /\ DupDone
    /\ \E el \in Elements :
          LET vt == Objects[el[1]].VertexData[el[2]]
          IN /\ vt.Type = Line
             /\ \E k \in DOMAIN vt.Decls : vt.Decls[k].RefVertex # vt.Decls[k].Vertex
             /\ \E k \in DOMAIN vt.Decls : vt.Decls[k].RefUV # vt.Decls[k].UV

\* the same for a point
C15_WitnessPoint ==
    /\ DupDone
    /\ \E el \in Elements :
          LET vt == Objects[el[1]].VertexData[el[2]]
          IN /\ vt.Type = Point
             /\ \E k \in DOMAIN vt.Decls : vt.Decls[k].RefVertex # vt.Decls[k].Vertex

-----------------------------------------------------------------------------
(* properties of the Merge processor *)

\* a step of the Merge processor
MergeStep == pc = "merge" /\ pc' = "write"

\* the positions of the objects of objs that hold at least one element
NonEmpty(objs) == {i \in DOMAIN objs : Len(objs[i].VertexData) > 0}

\* the position of the first object with elements that carries material
FirstWith(objs, material) ==
    CHOOSE i \in NonEmpty(objs) :
        /\ objs[i].Material = material
        /\ \A j \in NonEmpty(objs) : objs[j].Material = material => i <= j

\* C5: the Merge processor leaves exactly one object for each material that
\* an object with at least one element carried before it ran (the empty
\* material is a material as any other), no two objects share a material,
\* and the objects stand in the order in which their materials first
\* appeared among the objects with elements.
C5_OnePerMaterial ==
    [][MergeStep =>
        LET carried == {Objects[i].Material : i \in NonEmpty(Objects)}
        IN /\ Len(Objects') = Cardinality(carried)
           /\ {Objects'[k].Material : k \in DOMAIN Objects'} = carried
           /\ \A k, l \in DOMAIN Objects' :
                 k # l => Objects'[k].Material # Objects'[l].Material
           /\ \A k, l \in DOMAIN Objects' :
                 k < l => FirstWith(Objects, Objects'[k].Material)
                            < FirstWith(Objects, Objects'[l].Material)]_vars

\* A, B, C where A and C share a material and B has another, first seen
\* between them: after the merge "A C" comes first and "B" second.
C5_Witness ==
    /\ pc = "write"
    /\ Len(Objects) = 2
    /\ Objects[1].Name = "A C" /\ Objects[1].Material = "m2"
    /\ Objects[2].Name = "B" /\ Objects[2].Material = ""

\* C6: after the Merge processor every object holds at least one element;
\* an object that held none before is dropped, also when it shares its
\* material with objects that are kept: the name of a merged object is made
\* of the names of the objects with elements of its material only, and a
\* material carried by objects without elements only yields no object.
C6_EmptyDropped ==
    [][MergeStep =>
        /\ \A k \in DOMAIN Objects' : Len(Objects'[k].VertexData) > 0
        /\ \A k \in DOMAIN Objects' :
              LET members == SeqOfSet({i \in NonEmpty(Objects) :
                                 Objects[i].Material = Objects'[k].Material})
              IN /\ members # <<>>
                 /\ Objects'[k].Name =
                       Join([m \in DOMAIN members |-> Objects[members[m]].Name], " ")
        /\ \A i \in DOMAIN Objects :
              Len(Objects[i].VertexData) = 0 =>
                 \A k \in DOMAIN Objects' : Objects'[k].Name # Objects[i].Name]_vars

\* A, B, C where B holds no element: one object "A C" is left, B is gone.
C6_Witness ==
    /\ pc = "write"
    /\ Len(Objects) = 1
    /\ Objects[1].Name = "A C"
    /\ Len(Objects[1].VertexData) > 0

\* the sources of the object at k after the merge: the positions of the
\* objects before the merge whose elements it holds, in order
Sources(before, merged) ==
    SeqOfSet({i \in NonEmpty(before) :
                \E e \in DOMAIN before[i].VertexData : \E f \in DOMAIN merged.VertexData :
                    before[i].VertexData[e] = merged.VertexData[f]})

\* C17: an object that the Merge processor creates holds the elements of
\* its sources in their order, is named by the names of its sources that
\* are not empty, in their order and with one space between two ("Unnamed"
\* if there is none), carries the material of its sources and is an object
\* or a group as the first of its sources is.
C17_MergedObject ==
    [][MergeStep =>
        \A k \in DOMAIN Objects' :
            LET src == Sources(Objects, Objects'[k])
                named == SeqOfSet({m \in DOMAIN src : Objects[src[m]].Name # ""})
                names == [m \in DOMAIN named |-> Objects[src[named[m]]].Name]
            IN /\ src # <<>>
               /\ Objects'[k].VertexData =
                     Flat([m \in DOMAIN src |-> Objects[src[m]].VertexData])
               /\ Objects'[k].Name = IF names = <<>> THEN "Unnamed" ELSE Join(names, " ")
               /\ \A m \in DOMAIN src : Objects[src[m]].Material = Objects'[k].Material
               /\ Objects'[k].Type = Objects[src[1]].Type]_vars

\* C17 witness: a group "A B C" of material m1 was made of three sources
\* and written
C17_Witness ==
    /\ pc = "done"
    /\ Len(Objects) = 1
    /\ Objects[1].Name = "A B C"
    /\ Objects[1].Type = ChildGroup
    /\ Objects[1].Material = "m1"
    /\ Len(Objects[1].VertexData) > 3

-----------------------------------------------------------------------------
(* properties of the parser and of main *)

\* parse has read the line input' in this step
LineStep == pc = "parse" /\ parser'.linenum = parser.linenum + 1

\* every object of the document before the step is the same after it
ObjectsKept == \A i \in DOMAIN Objects : i \in DOMAIN Objects' /\ Objects'[i] = Objects[i]

\* C7: a material-use line read while there is a current object splits
\* exactly if the current object holds an element and has another material:
\* then one object is added, of the type of the current one, with the new
\* material and no element, and it becomes current (the first split of
\* object A is named A_1); otherwise no object is added and the current
\* object stays current.  An element read next goes to the current object
\* and to no other.
C7_Split ==
    [][ /\ (LineStep /\ input'.t = MtlUse /\ parser.currentObject # 0) =>
            LET cur == Objects[parser.currentObject]
                new == Objects'[Len(Objects')]
            IN IF Len(cur.VertexData) > 0 /\ cur.Material # word(input')
               THEN /\ Len(Objects') = Len(Objects) + 1
                    /\ ObjectsKept
                    /\ parser'.currentObject = Len(Objects')
                    /\ new.Type = cur.Type
                    /\ new.Material = word(input')
                    /\ new.VertexData = <<>>
                    /\ (cur.Name = "A" /\ parser.currentObjectChildIndex = 0)
                          => new.Name = "A_1"
               ELSE /\ Len(Objects') = Len(Objects)
                    /\ parser'.currentObject = parser.currentObject
                    /\ \A i \in DOMAIN Objects :
                          /\ Objects'[i].Name = Objects[i].Name
                          /\ Objects'[i].VertexData = Objects[i].VertexData
        /\ (LineStep /\ input'.t = Face /\ parser.currentObject # 0 /\ parser'.err = "") =>
            /\ parser'.currentObject = parser.currentObject
            /\ Len(Objects') = Len(Objects)
            /\ \A i \in DOMAIN Objects :
                  Len(Objects'[i].VertexData) =
                     Len(Objects[i].VertexData) + (IF i = parser.currentObject THEN 1 ELSE 0)
       ]_vars

\* "o A", faces under "usemtl m1", faces under "usemtl m2": A holds the
\* first face with m1, A_1 is current and holds the later face with m2
C7_Witness ==
    /\ Len(Objects) = 2
    /\ Objects[1].Name = "A" /\ Objects[1].Type = ChildObject
    /\ Objects[1].Material = "m1" /\ Len(Objects[1].VertexData) = 1
    /\ Objects[2].Name = "A_1" /\ Objects[2].Type = ChildObject
    /\ Objects[2].Material = "m2" /\ Len(Objects[2].VertexData) = 1
    /\ parser.currentObject = 2
    /\ parser.err = ""

\* the index that part k of an element line declares for channel t, 0 if
\* none: a face declares in its first four parts, a line and a point
\* declare no Normal; what else is written is not read as an index
Cited(line, k, t) ==
    LET i == CASE t = Vertex -> 1 [] t = UV -> 2 [] OTHER -> 3
        dataparts == line.value[k]
    IN IF (line.t = Face /\ k > 4) \/ (line.t # Face /\ t = Normal) THEN 0
       ELSE IF i <= Len(dataparts) /\ dataparts[i] # ""
       THEN Atoi(dataparts[i]).value ELSE 0

\* parse has read an element line in this step
ElementStep == LineStep /\ input'.t \in {Face, Line, Point}

\* the element that a successful ElementStep has appended
Appended == LET o == Objects'[parser'.currentObject]
            IN o.VertexData[Len(o.VertexData)]

\* C8: when an element line is read with n values in a channel, an index
\* -k written for that channel is stored as n - k + 1, with the pointer to
\* the value of that index; no Declaration of the document ever holds a
\* negative index; with 10 values, -1, -2, -3 become 10, 9, 8.
C8_NegativeResolved ==
    /\ [][(ElementStep /\ parser'.err = "") =>
            \A k \in DOMAIN Appended.Decls : \A t \in RefChannels :
               LET n == Len(Geometry[t])
                   w == Cited(input', k, t)
                   d == Appended.Decls[k]
               IN w < 0 => /\ RawIndex(d, t) = n - (0 - w) + 1
                           /\ RawIndex(d, t) \in 1..n
                           /\ RefOf(d, t) = Geometry[t][n - (0 - w) + 1]
                           /\ values[t][RefOf(d, t)].Index = n - (0 - w) + 1]_vars
    /\ [](\A d \in AllDecls : \A t \in RefChannels : RawIndex(d, t) >= 0)
    /\ [](<<absoluteIndex(-1, 10), absoluteIndex(-2, 10), absoluteIndex(-3, 10)>>
             = <<10, 9, 8>>)

\* "f -1 -2 -3" read with three Vertex values: the face cites 3, 2, 1
C8_Witness ==
    /\ parser.err = ""
    /\ parser.linenum > 0
    /\ input = SourceLine(Face, <<<<"-1">>, <<"-2">>, <<"-3">>>>)
    /\ Len(Geometry[Vertex]) = 3
    /\ LET o == Objects[parser.currentObject]
           vt == o.VertexData[Len(o.VertexData)]
       IN /\ vt.Type = Face
          /\ [k \in DOMAIN vt.Decls |-> vt.Decls[k].Vertex] = <<3, 2, 1>>

\* C9: when an element line is read with n values in a channel and some
\* part of it cites that channel by a non-zero index that, made absolute,
\* is below 1 or above n, parse fails with the out-of-bounds error and the
\* objects hold the elements they held before.
C9_OutOfBounds ==
    [][ElementStep =>
        \A k \in DOMAIN input'.value : \A t \in RefChannels :
           LET n == Len(Geometry[t])
               w == Cited(input', k, t)
               abs == IF w < 0 THEN w + n + 1 ELSE w
           IN (w # 0 /\ (abs <= 0 \/ abs > n)) =>
                 /\ parser'.err = "bounds"
                 /\ parser'.returned = "nil"
                 /\ pc' = "fatal"
                 /\ NumElements(Objects') = NumElements(Objects)
                 /\ \A i \in DOMAIN Objects :
                       Objects'[i].VertexData = Objects[i].VertexData]_vars

\* "p 2" read when one Vertex value has been declared: the parse has failed
\* with the out-of-bounds error, no element was added
C9_Witness ==
    /\ pc = "fatal"
    /\ parser.err = "bounds"
    /\ input = SourceLine(Point, <<<<"2">>>>)
    /\ Len(Geometry[Vertex]) = 1
    /\ NumElements(Objects) = 0

\* C10: once a line has failed to parse, parse has returned no document,
\* main has ended, the Duplicates processor has not started, the output
\* file is the one from before the run, and nothing happens any more: no
\* further line is read, no processor runs, nothing is written.
C10_FailureStops ==
    /\ [](parser.err # "" =>
            /\ pc = "fatal"
            /\ parser.returned = "nil"
            /\ engine = engineIdle
            /\ output.file = "old")
    /\ [][parser.err = ""]_vars

\* the third line of an input has failed after two Vertex values were read
C10_Witness ==
    /\ pc = "fatal"
    /\ parser.err # ""
    /\ parser.linenum = 3
    /\ Len(Geometry[Vertex]) = 2
    /\ output.file = "old"

-----------------------------------------------------------------------------
(* properties of the writer *)

\* the document parse returns on the file that was written
Reparsed == parse(output.lines, StartParams.Strict, StartParams.Input)

\* main has written the document that parse returned
Written == pc = "done" /\ output.file = "written"

\* C11: when a document that was only parsed is written and the file is
\* parsed again, the second document holds the same values in every
\* channel, all stored components in the same order, and the same objects:
\* each with the same elements, declarations and indexes.
C11_RoundTrip ==
    Written =>
        /\ Reparsed.parser.err = ""
        /\ Reparsed.values = values
        /\ Reparsed.Geometry = Geometry
        /\ Reparsed.Objects = Objects
\* the lines of a file after the comment with the instant of the run
Payload(file) == SubSeq(file.lines, 2, Len(file.lines))

\* C12: the whole pipeline on the output of an earlier whole run changes
\* nothing but the provenance comment: the second run finds no duplicate in
\* any channel, and its output holds the same channels, references and
\* objects as its input.
C12_Idempotent ==
    [][Second' =>
         /\ \A t \in Channels : engine'.results[t].Items = <<>>
         /\ (pc = "write" /\ pc' = "done") => Payload(output') = Payload(output)]_vars
\* the result of findDuplicates on channel t when the workers finish in
\* the order in which they were started
Found(t) ==
    LET slice == Geometry[t]
        ranges == workerRanges(Len(slice), StartParams.Workers, 0)
        inner == [w \in DOMAIN ranges |->
                     processSlice(values[t], ranges[w][1], ranges[w][2], slice,
                                  StartParams.Epsilon)]
        result == findDuplicatesResult(values[t], Flat(inner))
    IN IF Len(slice) > 0 /\ result.called THEN result ELSE noResult

Busy(t) ==
    LET ranges == workerRanges(Len(Geometry[t]), StartParams.Workers, 0)
    IN {w \in DOMAIN ranges :
          processSlice(values[t], ranges[w][1], ranges[w][2], Geometry[t],
                       StartParams.Epsilon) # <<>>}

-----------------------------------------------------------------------------
(* properties of the parser: errors, strict mode *)

\* C16: an error of parse carries the number of the line of the input on
\* which it occurred, counted from 1 with the empty lines, and that line
\* is the first that fails: every line that is scanned is counted, the
\* error of a line carries the count, and no line is scanned after it.
C16_ErrorLine ==
    [][ /\ pc # "fatal"
        /\ (pc = "parse" /\ pc' # "duplicates") =>
               /\ parser'.linenum = parser.linenum + 1
               /\ parser'.err # "" <=> pc' = "fatal"
               /\ parser'.err # "" => parser'.errLine = parser.linenum + 1
      ]_vars

\* C16 witness: parse has failed on the third line of an input, after two
\* lines that are empty or comments, strict
C16_Witness ==
    /\ pc = "fatal"
    /\ StartParams.Strict
    /\ parser.err = "strict"
    /\ parser.errLine = 3
    /\ \A t \in Channels : Geometry[t] = <<>>
\* the number of components a value of channel t may hold
allowed(t) == IF t = Vertex THEN 4 ELSE 3

\* parse has read the geometry line input', which holds more components
\* than its channel allows, each of them a number
OverflowStep ==
    /\ pc = "parse"
    /\ parser'.linenum = parser.linenum + 1
    /\ input'.t \in Channels
    /\ Len(input'.value) > allowed(input'.t)
    /\ \A k \in DOMAIN input'.value : ~ParseFloat(input'.value[k][1]).err

\* C18: a geometry line with a fourth component outside the Vertex
\* channel, or with a fifth component: in strict mode parse fails and the
\* channel stays as it was; otherwise the components beyond the allowed
\* ones are dropped, the value stored is the value of the line without
\* them.
C18_Overflow ==
    [][OverflowStep =>
         IF StartParams.Strict
         THEN parser'.err # "" /\ Geometry' = Geometry /\ values' = values
         ELSE LET cut == SubSeq(input'.value, 1, allowed(input'.t))
                  r == ReadValue(values, Geometry, input'.t, cut, FALSE)
              IN parser'.err = "" /\ Geometry' = r.Geometry /\ values' = r.values]_vars
\* the number of dataparts a part of an element line of type t may hold
\* and the number of parts that are read
fields(t) == IF t = Face THEN 3 ELSE 2
groups(line) == IF line.t = Face /\ Len(line.value) > 4 THEN 4 ELSE Len(line.value)

\* the places <<part, datapart>> of an element line beyond the fields
Extra(line) ==
    {<<k, j>> \in (1..groups(line)) \X (1..4) :
        j > fields(line.t) /\ j <= Len(line.value[k])}

\* the element line without the parts and dataparts beyond the allowed
Truncated(line) ==
    [line EXCEPT !.value =
        [k \in 1..groups(line) |->
            SubSeq(line.value[k], 1,
                   IF Len(line.value[k]) > fields(line.t) THEN fields(line.t)
                   ELSE Len(line.value[k]))]]

\* parse has read the face or line input', which holds a fifth part or
\* a datapart beyond the fields
ElementOverflow ==
    /\ pc = "parse"
    /\ parser'.linenum = parser.linenum + 1
    /\ input'.t \in {Face, Line}
    /\ Truncated(input') # input'

\* the step has the effect of parse on the given line
ParsedAs(line) ==
    LET r == parseLine(parseState(values, Geometry, Objects, parser), line,
                       StartParams.Strict, StartParams.Input)
    IN /\ Objects' = r.Objects
       /\ parser' = r.parser
       /\ values' = r.values
       /\ Geometry' = r.Geometry

\* C19 as stated: a face with a fifth part or a fourth datapart, a line
\* with a third datapart: in strict mode parse fails; otherwise what lies
\* beyond is ignored, the element is the element of the line without it.
C19_Original ==
    [][ElementOverflow =>
          IF StartParams.Strict THEN parser'.err # "" ELSE ParsedAs(Truncated(input'))]_vars

\* a datapart beyond the fields that is neither empty nor an integer
Garbage(line) == \E pl \in Extra(line) : line.value[pl[1]][pl[2]] # ""
                                          /\ Atoi(line.value[pl[1]][pl[2]]).err

\* what strict mode rejects: a fifth part of a face, a datapart beyond the
\* fields of a face, a datapart beyond the fields of a line that is not
\* empty
Rejected(line) ==
    \/ line.t = Face /\ Len(line.value) > 4
    \/ \E pl \in Extra(line) : line.t = Face \/ line.value[pl[1]][pl[2]] # ""

\* C19, amended: a part of a face beyond the fourth is never read: it makes
\* parse fail in strict mode and is ignored otherwise, whatever it holds.
\* A datapart beyond the fields (three of a face, two of a line) is read
\* before it is rejected: one that is neither empty nor an integer makes
\* parse fail in both modes; otherwise it makes parse fail in strict mode
\* and is ignored in non-strict mode, but an empty datapart of a line is
\* skipped in both modes.
C19_Truncated ==
    [][ElementOverflow =>
          IF Garbage(input') \/ (StartParams.Strict /\ Rejected(input'))
          THEN parser'.err # ""
          ELSE ParsedAs(Truncated(input'))]_vars

\* C19 witness: without -strict a face of five parts was read and the
\* object holds a face of four declarations
C19_Witness ==
    /\ ~StartParams.Strict
    /\ pc = "parse"
    /\ parser.err = ""
    /\ input.t = Face /\ Len(input.value) = 5
    /\ \E o \in DOMAIN Objects :
          /\ Objects[o].VertexData # <<>>
          /\ Len(Objects[o].VertexData[Len(Objects[o].VertexData)].Decls) = 4
\* C20: a part of a point holds the index of a vertex and nothing else: a
\* point with a part of two or more dataparts makes parse fail, and no
\* declaration of a point of the document holds the index of a UV.
C20_PointVertexOnly ==
    [][ /\ (/\ pc = "parse"
            /\ parser'.linenum = parser.linenum + 1
            /\ input'.t = Point
            /\ \E k \in DOMAIN input'.value : Len(input'.value[k]) > 1)
           => parser'.err # ""
        /\ \A o \in DOMAIN Objects' : \A e \in DOMAIN Objects'[o].VertexData :
              Objects'[o].VertexData[e].Type = Point =>
                 \A k \in DOMAIN Objects'[o].VertexData[e].Decls :
                    /\ Objects'[o].VertexData[e].Decls[k].UV = 0
                    /\ Objects'[o].VertexData[e].Decls[k].RefUV = 0
      ]_vars


\* the Face elements of the document
Faces ==
    {pl \in (DOMAIN Objects) \X (1..MaxElems) :
        /\ pl[2] \in DOMAIN Objects[pl[1]].VertexData
        /\ Objects[pl[1]].VertexData[pl[2]].Type = Face}

\* C21: every Face element of a successfully parsed document has 3 or 4
\* declarations: while parse has not failed, whatever the mode, each face
\* stored in an object has three or four declarations (the slots A, B, C
\* and optionally D)
C21_FaceSlots ==
    pc # "fatal" =>
        \A pl \in Faces : Len(Objects[pl[1]].VertexData[pl[2]].Decls) \in {3, 4}

\* parse has read a geometry line
GeometryStep == LineStep /\ input'.t \in Channels

\* the channel t has got one value more, at its end, with the next index
Inserted(t) ==
    /\ Len(Geometry'[t]) = Len(Geometry[t]) + 1
    /\ SubSeq(Geometry'[t], 1, Len(Geometry[t])) = Geometry[t]
    /\ values'[t][Geometry'[t][Len(Geometry'[t])]].Index = Len(Geometry[t]) + 1
    /\ \A k \in DOMAIN Geometry[t] :
          values'[t][Geometry[t][k]] = values[t][Geometry[t][k]]

\* the channel t is as it was
Untouched(t) ==
    /\ Geometry'[t] = Geometry[t]
    /\ \A k \in DOMAIN Geometry[t] :
          values'[t][Geometry[t][k]] = values[t][Geometry[t][k]]

\* C22: after any sequence of geometry lines the k-th value of each channel
\* has index k; a geometry line that is read appends exactly one value at
\* the end of its channel, with index the previous length plus one, and
\* changes no other channel; a geometry line that fails leaves all four
\* channels unchanged
C22_AppendOnly ==
    /\ [](\A t \in Channels : \A k \in DOMAIN Geometry[t] :
            values[t][Geometry[t][k]].Index = k)
    /\ [][GeometryStep =>
            IF parser'.err = ""
            THEN /\ Inserted(input'.t)
                 /\ \A t \in Channels \ {input'.t} : Untouched(t)
            ELSE \A t \in Channels : Untouched(t)]_vars

\* two values have been inserted into a channel with a value in another
\* channel, and a geometry line has failed after them
C22_Witness ==
    /\ pc = "fatal"
    /\ input.t \in Channels
    /\ \E t, u \in Channels :
          t # u /\ Len(Geometry[t]) >= 2 /\ Len(Geometry[u]) >= 1

-----------------------------------------------------------------------------
(* properties of the parser: materials, smoothing groups, names *)

\* C23: every element of an object was read while the material of the object
\* was the active one.  The active material is the value of the last
\* material-use line ("" before the first); the current object always has
\* the active material; an object that holds an element never gets another
\* material and keeps its elements; an object that is created, by a marker,
\* by a split or for an element without a marker, starts with the active
\* material; an element that is read goes to an object with the material
\* that was active before its line.
C23_ActiveMaterial ==
    /\ [](parser.currentObject # 0 =>
            Objects[parser.currentObject].Material = parser.currentMaterial)
    /\ [][LineStep =>
            /\ parser'.currentMaterial =
                  IF input'.t = MtlUse THEN word(input') ELSE parser.currentMaterial
            /\ \A i \in DOMAIN Objects :
                  Len(Objects[i].VertexData) > 0 =>
                     /\ i \in DOMAIN Objects'
                     /\ Objects'[i].Material = Objects[i].Material
                     /\ SubSeq(Objects'[i].VertexData, 1, Len(Objects[i].VertexData))
                           = Objects[i].VertexData
            /\ \A i \in DOMAIN Objects' \ DOMAIN Objects :
                  Objects'[i].Material = parser'.currentMaterial
            /\ \A i \in DOMAIN Objects' :
                  (Len(Objects'[i].VertexData) >
                      (IF i \in DOMAIN Objects THEN Len(Objects[i].VertexData) ELSE 0))
                  => Objects'[i].Material = parser.currentMaterial]_vars

\* "usemtl m1", a face without a marker, "usemtl m2", a face: the object
\* made for the first face holds it with m1, the split holds the second
\* with m2
C23_Witness ==
    /\ parser.err = ""
    /\ Len(Objects) = 2
    /\ Objects[1].Name = fileBasename(InputPath)
    /\ Objects[1].Material = "m1" /\ Len(Objects[1].VertexData) = 1
    /\ Objects[2].Material = "m2" /\ Len(Objects[2].VertexData) = 1
    /\ parser.currentMaterial = "m2"

\* the smoothing-group metadata of the elements of the document are kept
MetaKept ==
    \A i \in DOMAIN Objects : \A e \in DOMAIN Objects[i].VertexData :
        /\ i \in DOMAIN Objects'
        /\ e \in DOMAIN Objects'[i].VertexData
        /\ Objects'[i].VertexData[e].meta = Objects[i].VertexData[e].meta

\* C24: the value of a smoothing-group line is attached to exactly one
\* element, the first one read after it, and is then cleared.  A
\* smoothing-group line makes its value the pending one, in place of the
\* one before; an element that is read carries the pending value (none if
\* nothing is pending) and leaves nothing pending; every other line,
\* markers and material-use lines included, leaves the pending value as it
\* is; no line changes the metadata of an element read before.
C24_SmoothingGroup ==
    [][LineStep =>
        /\ MetaKept
        /\ input'.t = SmoothingGroup => parser'.currentSmoothGroup = word(input')
        /\ (input'.t \in {Face, Line, Point} /\ parser'.err = "") =>
              /\ Appended.meta = parser.currentSmoothGroup
              /\ parser'.currentSmoothGroup = ""
        /\ (input'.t \notin {Face, Line, Point, SmoothingGroup} \/ parser'.err # "") =>
              parser'.currentSmoothGroup = parser.currentSmoothGroup]_vars

\* "s 1", "s 2", an object marker, a face and a point: the face carries 2,
\* the point carries nothing
C24_Witness ==
    /\ parser.err = ""
    /\ parser.currentSmoothGroup = ""
    /\ \E i \in DOMAIN Objects :
          /\ Objects[i].Name = "A"
          /\ Len(Objects[i].VertexData) = 2
          /\ Objects[i].VertexData[1].meta = "2"
          /\ Objects[i].VertexData[2].meta = ""

\* parse has read a material-use line that splits the current object
SplitStep == LineStep /\ input'.t = MtlUse /\ Len(Objects') = Len(Objects) + 1

\* the position of the object that the last marker created, or that was
\* created for an element without a marker: the splits follow it directly
MarkerObject == parser.currentObject - parser.currentObjectChildIndex

\* C25: the k-th split after an object/group marker creates an object named
\* P_k, P the name of the object that the marker created, also when that
\* object got its name from CreateObject or was created for an element
\* without a marker; k restarts at 1 with every marker; the objects created
\* under one marker have different names
C25_SplitName ==
    /\ [][SplitStep =>
            Objects'[Len(Objects')].Name =
               Objects[MarkerObject].Name \o "_"
                  \o ToString(parser.currentObjectChildIndex + 1)]_vars
    /\ [][(LineStep /\ input'.t \in {ChildObject, ChildGroup}) =>
            parser'.currentObjectChildIndex = 0]_vars
    /\ [](parser.currentObject # 0 =>
            \A i, j \in MarkerObject..parser.currentObject :
               i # j => Objects[i].Name # Objects[j].Name)

-----------------------------------------------------------------------------
(* properties of findDuplicates, pass by pass *)

\* the list results of the goroutine at this point of its passes
Reps == engine.run.results

\* the goroutine is in one of the given stages
Stage(stages) == engine.phase = "find" /\ engine.run.stage \in stages

\* the replacers handed to the callback for the Vertex channel
Items == engine.results[Vertex].Items

\* nonemptyMerged as the 1st run leaves it
MergedReps == nonempty(mergeRun(values[Vertex], sortByIndex(engine.run.arrived), 1))

\* the pass-by-pass run starts its 2nd run with what the 1st run computes
\* as a whole, and hands over what findDuplicates computes as a whole
PassesAgree ==
    /\ (Stage({"deduplicate"}) /\ engine.run.i1 = 1 /\ engine.run.i2 = 2) =>
          Reps = MergedReps
    /\ (Stage({"done"}) /\ engine.run.arrived # <<>>) =>
          engine.results[Vertex] = findDuplicatesResult(values[Vertex], engine.run.arrived)

\* C26: after the merge pass, for representatives r1 < r2 that both have
\* items, the index of r2 is not in the set of r1; this stays so through
\* the conflict resolution; in the map from index to canonical value that
\* is made of the final list no key is the index of a canonical value; a
\* canonical value is never marked discarded
C26_RejectedFold ==
    /\ Stage({"deduplicate", "done"}) =>
          \A a, b \in DOMAIN Reps :
             (Reps[a].ref < Reps[b].ref /\ hasItems(Reps[a]) /\ hasItems(Reps[b]))
                => Reps[b].ref \notin Reps[a].replaces
    /\ \A a \in DOMAIN Items :
          /\ Items[a].ref \notin DOMAIN FlattenGeometry(Items)
          /\ ~values[Vertex][Items[a].ref].Discard

\* values i < j < k, j within epsilon of both, i and k apart: the fold of
\* j into i was rejected, j is canonical for k and is kept, k is discarded
C26_Witness ==
    /\ engine.phase = "rewrite"
    /\ \E i, j, k \in DOMAIN values[Vertex] :
          /\ i < j /\ j < k
          /\ Near(Vertex, i, j) /\ Near(Vertex, j, k) /\ ~Near(Vertex, i, k)
          /\ \E a \in DOMAIN Items : Items[a].ref = j /\ k \in Items[a].replaces
          /\ values[Vertex][k].Discard
          /\ ~values[Vertex][j].Discard

\* the value with pointer m is within epsilon of the value with pointer r
Direct(r, m) == Equals(values[Vertex][r], values[Vertex][m], StartParams.Epsilon)

\* a reference to the Vertex channel has been rewritten: a point of the
\* document cites another value than the one it was read with
Rewritten(e) ==
    Objects[1].VertexData[e].Decls[1].RefVertex # e

\* C27: at every step of the scan, of the 1st and of the 2nd run every
\* member of the set of a representative is, componentwise, within epsilon
\* of the value of the representative itself; every reference that Apply
\* rewrites then points to a value within epsilon of the value it pointed
\* to before (point e of the document was read citing value e)
C27_DirectlyNear ==
    /\ \A a \in DOMAIN Reps : \A m \in Reps[a].replaces : Direct(Reps[a].ref, m)
    /\ \A e \in DOMAIN Objects[1].VertexData :
          Direct(Objects[1].VertexData[e].Decls[1].RefVertex, e)

\* values 1, 2, 3 with 2 within epsilon of both and 1 and 3 apart: the
\* point that cited 3 cites 2 after Apply
C27_Witness ==
    /\ engine.phase = "rewrite"
    /\ Len(Geometry[Vertex]) >= 3
    /\ Direct(1, 2) /\ Direct(2, 3) /\ ~Direct(1, 3)
    /\ Rewritten(3)
    /\ Objects[1].VertexData[3].Decls[1].RefVertex = 2

\* the representatives that held the value m after the 1st run
Holders(m) == {MergedReps[a].ref : a \in {b \in DOMAIN MergedReps : m \in MergedReps[b].replaces}}

\* the representatives that hold the value m in the list handed over
Keepers(m) == {Items[a].ref : a \in {b \in DOMAIN Items : m \in Items[b].replaces}}

\* C28: after the 2nd run no index is in the sets of two representatives,
\* and a value that was in several sets after the 1st run is in the set of
\* one of those representatives whose squared distance to it over x, y, z
\* is the least among them
C28_ClosestKeeps ==
    Stage({"done"}) =>
        \A m \in DOMAIN values[Vertex] :
            /\ Cardinality(Keepers(m)) <= 1
            /\ Cardinality(Holders(m)) > 1 =>
                  \E r \in Keepers(m) \cap Holders(m) : \A o \in Holders(m) :
                      Distance(values[Vertex][r], values[Vertex][m])
                         <= Distance(values[Vertex][o], values[Vertex][m])

\* a value was in the sets of three representatives after the 1st run; one
\* that is strictly closer to it than another holds it alone in the end
C28_Witness ==
    /\ Stage({"done"})
    /\ \E m \in DOMAIN values[Vertex] : \E r, o \in Holders(m) :
          /\ Cardinality(Holders(m)) >= 3
          /\ Distance(values[Vertex][r], values[Vertex][m])
                < Distance(values[Vertex][o], values[Vertex][m])
          /\ Keepers(m) = {r}

\* C29: in every pass every member of the set of a representative has a
\* larger original index than the representative, and no representative
\* is in its own set (while the passes run the index of a value is its
\* pointer, the position at which it was read); the canonical value of a
\* reference that was rewritten is declared earlier in the channel than
\* the value the reference cited (point e of the document was read citing
\* value e)
C29_ForwardOnly ==
    /\ \A a \in DOMAIN Reps : \A m \in Reps[a].replaces : Reps[a].ref < m
    /\ engine.phase = "find" =>
          \A i \in DOMAIN values[Vertex] : values[Vertex][i].Index = i
    /\ \A e \in DOMAIN Objects[1].VertexData :
          Objects[1].VertexData[e].Decls[1].RefVertex <= e

\* a merge has moved a value from a later representative to an earlier
\* one, and the reference to it has been rewritten to that earlier value
C29_Witness ==
    /\ engine.phase = "rewrite"
    /\ \E a \in DOMAIN Items : \E m \in Items[a].replaces :
          /\ \E b \in DOMAIN engine.run.arrived :
                /\ engine.run.arrived[b].ref \in Items[a].replaces
                /\ m \in engine.run.arrived[b].replaces
          /\ Objects[1].VertexData[m].Decls[1].RefVertex = Items[a].ref

\* the 0-based indexes of the range <<start, end>>
RangeOf(range) == range[1]..(range[2] - 1)

\* the ranges are pairwise disjoint and together cover 0..L-1
Partition(ranges, L) ==
    /\ \A w, v \in DOMAIN ranges : w # v => RangeOf(ranges[w]) \cap RangeOf(ranges[v]) = {}
    /\ UNION {RangeOf(ranges[w]) : w \in DOMAIN ranges} = 0..(L - 1)

\* the later values of the slice that are within epsilon of the value at i
LaterHits(i) == {j \in (i + 1)..Len(Geometry[Vertex]) : Direct(i, j)}

\* C30: for every length L >= 1 of the channel and every number W >= 1 of
\* workers, also W > L and L no multiple of W, the ranges handed to the
\* scan workers are pairwise disjoint and together cover 0..L-1 (for the
\* ranges of the run, and for every L and W up to twice the default number
\* of workers); when the workers are done, every index has been scanned as
\* a representative by exactly one of them against every later index of
\* the whole slice: the list holds one replacer for every value with later
\* values within epsilon, with exactly those values, and none for the
\* other values
C30_Partition ==
    /\ Stage({"start"}) =>
          \A L, W \in 1..(2 * DefaultWorkers) : Partition(workerRanges(L, W, 0), L)
    /\ Stage({"scan", "merge", "deduplicate", "done"}) =>
          /\ Len(engine.run.ranges) \in 1..StartParams.Workers
          /\ Partition(engine.run.ranges, Len(Geometry[Vertex]))
    /\ (Stage({"scan"}) /\ engine.run.wgInternal = {}) =>
          \A i \in DOMAIN Geometry[Vertex] :
             LET found == {a \in DOMAIN Reps : Reps[a].ref = i}
             IN IF LaterHits(i) = {} THEN found = {}
                ELSE /\ Cardinality(found) = 1
                     /\ \A a \in found : Reps[a].replaces = LaterHits(i)

\* two workers on three values, 3 no multiple of 2: both have scanned,
\* each of them has found a representative in its range
C30_Witness ==
    /\ Stage({"scan"})
    /\ engine.run.wgInternal = {}
    /\ Len(Geometry[Vertex]) = 3
    /\ StartParams.Workers = 2
    /\ \E a, b \in DOMAIN Reps :
          /\ Reps[a].ref - 1 \in RangeOf(engine.run.ranges[1])
          /\ Reps[b].ref - 1 \in RangeOf(engine.run.ranges[2])

-----------------------------------------------------------------------------
(* properties of Duplicates.Execute: workers, goroutines, phases *)

\* the channel t as parse left it: the values in the order of the heap
Whole(t) == [i \in DOMAIN values[t] |-> i]

\* the result of findDuplicates on channel t with a single scan worker
Single(t) ==
    LET range == workerRanges(Len(Whole(t)), 1, 0)[1]
        result == findDuplicatesResult(values[t],
                      processSlice(values[t], range[1], range[2], Whole(t),
                                   StartParams.Epsilon))
    IN IF result.called THEN result ELSE noResult

\* the value a reference of channel t to the value id is rewritten to
SingleRef(t, id) ==
    LET indexToRef == FlattenGeometry(Single(t).Items)
    IN IF id \in DOMAIN indexToRef THEN indexToRef[id] ELSE id

\* the values of channel t that a Declaration named before the rewrite and
\* that the single worker's result replaces
SingleGone(t) ==
    {id \in DOMAIN FlattenGeometry(Single(t).Items) :
        \E pl \in DeclPlaces(Objects) : RawIndex(DeclAt(Objects, pl), t) = id}

WorkersAt(t, p) ==
    {w \in DOMAIN engine.go[t].workers : engine.go[t].workers[w].pc \in p}

\* the scan worker w of channel t appends its innerResults to results
Appends(t, w) ==
    /\ engine.go[t].mResults = w
    /\ engine.go[t].workers[w].pc = "locked"
    /\ engine.go[t].workers[w].first >= engine.go[t].workers[w].subend
    /\ engine.go[t].results' =
           engine.go[t].results \o engine.go[t].workers[w].innerResults
    /\ engine.go[t].workers'[w].appended = 1
    /\ \A u \in DOMAIN engine.go[t].workers :
           engine.go[t].workers'[u].innerResults = engine.go[t].workers[u].innerResults

\* C32: a scan worker keeps its hits in innerResults and appends them to
\* the results of its channel once, after the last value of its range and
\* while it holds the lock of that list; no two workers are under the lock
\* at the same time, and the goroutine sorts the list only when all its
\* workers are done and it has taken the lock; a result is stored into the
\* results of Execute only by a goroutine that holds the lock of Execute.
C32_UnderLock ==
    /\ [](\A t \in Channels :
            /\ Cardinality(WorkersAt(t, {"locked"})) <= 1
            /\ \A w \in WorkersAt(t, {"locked"}) : engine.go[t].mResults = w
            /\ \A w \in DOMAIN engine.go[t].workers :
                 LET worker == engine.go[t].workers[w]
                 IN /\ worker.appended = (IF worker.pc = "done" THEN 1 ELSE 0)
                    /\ worker.pc = "scan" =>
                         \A k \in DOMAIN worker.innerResults :
                             worker.innerResults[k] \notin Range(engine.go[t].results))
    /\ [][\A t \in Channels :
            engine.go[t].stage = "scan" /\ engine.go[t].results' # engine.go[t].results
               => \/ \E w \in DOMAIN engine.go[t].workers : Appends(t, w)
                  \/ /\ wgInternal(t) = {}
                     /\ engine.go[t].mResults = Unlocked
                     /\ engine.go[t].mResults' = -1]_vars
    /\ [][\A t \in Channels :
            engine.results'[t] # engine.results[t]
               => /\ engine.mResults = typeIndex(t)
                  /\ engine.go[t].stage = "store"
                  /\ \A u \in Channels \ {t} : engine.results'[u] = engine.results[u]]_vars

\* a scan worker of the Vertex channel is under the lock with hits while
\* another with hits has scanned its range and waits for the lock, and the
\* goroutine of the Normal channel stores its result under the lock of
\* Execute
C32_Witness ==
    /\ \E w1 \in WorkersAt(Vertex, {"locked"}) : \E w2 \in WorkersAt(Vertex, {"scan"}) :
         /\ engine.go[Vertex].workers[w1].innerResults # <<>>
         /\ engine.go[Vertex].workers[w2].innerResults # <<>>
         /\ engine.go[Vertex].workers[w2].first >= engine.go[Vertex].workers[w2].subend
    /\ engine.go[Normal].stage = "store"
    /\ engine.mResults = typeIndex(Normal)
\* no value carries a discard flag and every pointer of a Declaration is
\* the one parse set
Unwritten ==
    /\ \A t \in Channels : \A id \in DOMAIN values[t] : ~values[t][id].Discard
    /\ \A pl \in DeclPlaces(Objects) : \A t \in {Vertex, UV, Normal} :
           RefOf(DeclAt(Objects, pl), t) = RawIndex(DeclAt(Objects, pl), t)

\* C33: the phases of the engine are ordered.  The goroutine of a channel
\* is past wgInternal.Wait() only when each of its scan workers has
\* scanned its range and appended its hits; main rewrites the references
\* only when the goroutine of every channel has returned; a channel is
\* compacted only after the references of all channels are rewritten; and
\* no discard flag and no pointer of a Declaration is written while a scan
\* worker or a goroutine is running.
C33_PhaseOrder ==
    /\ \A t \in Channels :
          engine.go[t].stage \in {"merge", "deduplicate", "callback", "store", "done"} =>
              \A w \in DOMAIN engine.go[t].workers :
                  /\ engine.go[t].workers[w].pc = "done"
                  /\ engine.go[t].workers[w].first >= engine.go[t].workers[w].subend
                  /\ engine.go[t].workers[w].appended = 1
    /\ engine.phase \in {"rewrite", "done", "fatal"} =>
          \A t \in Channels :
              /\ engine.go[t].stage \in {"none", "done"}
              /\ engine.go[t].stage = "none" <=> Len(values[t]) = 0
    /\ (\E t \in Channels : Geometry[t] # Whole(t)) =>
          /\ engine.phase = "done"
          /\ \A pl \in DeclPlaces(Objects) : \A t \in {Vertex, UV, Normal} :
                RefOf(DeclAt(Objects, pl), t) # 0 =>
                    ~values[t][RefOf(DeclAt(Objects, pl), t)].Discard
    /\ (\E t \in Channels : engine.go[t].stage \notin {"none", "done"}) => Unwritten
    /\ engine.phase \in {"idle", "start"} => Unwritten

\* the goroutines of two channels have returned, one with a result, the
\* references were rewritten and the Vertex channel was compacted
C33_Witness ==
    /\ engine.phase = "done"
    /\ engine.go[Vertex].stage = "done"
    /\ engine.go[Normal].stage = "done"
    /\ Cardinality(DOMAIN engine.go[Vertex].workers) = 2
    /\ engine.results[Vertex].called
    /\ ~Unwritten
    /\ Len(Geometry[Vertex]) < Len(Whole(Vertex))
\* the goroutine of channel t has called wgMain.Done() as often as it was
\* started
Signalled(t) == engine.go[t].dones = (IF Len(values[t]) > 0 THEN 1 ELSE 0)

\* C34: Execute terminates for every document and every number of workers.
\* Every scan worker finishes, the goroutine of every channel with values
\* calls wgMain.Done() once, never twice, be it the one that returns early
\* with no duplicates or the one whose callback has to wait for the lock
\* that main holds while it starts the goroutines, and main gets past
\* wg.Wait(), rewrites the references and compacts the channels.
C34_Terminates ==
    /\ [](\A t \in Channels : engine.go[t].dones <= 1)
    /\ <>(/\ engine.phase = "done"
          /\ pc = "merge"
          /\ engine.mResults = Unlocked
          /\ \A t \in Channels :
                /\ Signalled(t)
                /\ engine.go[t].mResults = Unlocked
                /\ WorkersAt(t, {"scan", "locked"}) = {})

\* main still holds the lock while it starts the goroutines; the goroutine
\* of the Vertex channel has found no duplicates and returned early, and
\* the callback of the goroutine of the Normal channel waits for the lock
C34_Witness ==
    /\ engine.phase = "start"
    /\ engine.mResults = -1
    /\ engine.go[Vertex].stage = "done"
    /\ ~engine.results[Vertex].called
    /\ engine.go[Vertex].dones = 1
    /\ engine.go[Normal].stage = "callback"
-----------------------------------------------------------------------------
(* properties of the processors: what they leave as it was *)

\* a step of Duplicates.Execute
EngineStep == pc = "duplicates"

\* the slice after the step is the slice before without some of its values
Thinned(before, after) ==
    LET kept == SeqOfSet({i \in DOMAIN before : before[i] \in Range(after)})
    IN after = [k \in DOMAIN kept |-> before[kept[k]]]

\* the element after the step is the element before up to the pointers of
\* its declarations
SameElement(before, after) ==
    /\ after.Type = before.Type
    /\ after.meta = before.meta
    /\ Len(after.Decls) = Len(before.Decls)
    /\ \A k \in DOMAIN before.Decls : \A t \in {Vertex, UV, Normal} :
          RawIndex(after.Decls[k], t) = RawIndex(before.Decls[k], t)

\* C35: Execute changes the pointers of the declarations, the discard
\* flags and the indexes of the values, and which values a channel holds,
\* and nothing else.  The values keep their components and the values a
\* channel keeps stay in their order; the objects stay the same in number
\* and order, with their names, types and materials, and so do the
\* elements of each object, each with its type, its smoothing group and
\* its declarations.
C35_EngineFrame ==
    [][EngineStep =>
         /\ \A t \in Channels :
               /\ DOMAIN values'[t] = DOMAIN values[t]
               /\ \A id \in DOMAIN values[t] :
                     /\ values'[t][id].X = values[t][id].X
                     /\ values'[t][id].Y = values[t][id].Y
                     /\ values'[t][id].Z = values[t][id].Z
                     /\ values'[t][id].W = values[t][id].W
               /\ Thinned(Geometry[t], Geometry'[t])
         /\ DOMAIN Objects' = DOMAIN Objects
         /\ \A o \in DOMAIN Objects :
               /\ Objects'[o].Type = Objects[o].Type
               /\ Objects'[o].Name = Objects[o].Name
               /\ Objects'[o].Material = Objects[o].Material
               /\ DOMAIN Objects'[o].VertexData = DOMAIN Objects[o].VertexData
               /\ \A e \in DOMAIN Objects[o].VertexData :
                     SameElement(Objects[o].VertexData[e], Objects'[o].VertexData[e])
         /\ UNCHANGED <<StartParams, parser, input, output>>]_vars

\* Execute has rewritten a pointer and dropped a value of a document of
\* three objects, one of them with a smoothing group
C35_Witness ==
    /\ engine.phase = "done"
    /\ Len(Objects) = 3
    /\ \E o \in DOMAIN Objects : \E e \in DOMAIN Objects[o].VertexData :
          /\ Objects[o].VertexData[e].meta # ""
          /\ Objects[o].VertexData[e].Decls[1].RefVertex
                 # Objects[o].VertexData[e].Decls[1].Vertex
    /\ Len(Geometry[Vertex]) < Len(values[Vertex])
\* the value i of channel t is absorbed: a replacer that findDuplicates
\* reported holds it
Absorbed(t, i) == i \in DOMAIN FlattenGeometry(engine.results[t].Items)

NumOfType(objs, t) ==
    Cardinality({pl \in (DOMAIN objs) \X (1..(2 * MaxObjs)) :
                    /\ pl[2] \in DOMAIN objs[pl[1]].VertexData
                    /\ objs[pl[1]].VertexData[pl[2]].Type = t})

\* the places <<object, element>> of objs at which the element vd stands
PlacesOf(objs, vd) ==
    {pl \in (DOMAIN objs) \X (1..(2 * MaxObjs)) :
        /\ pl[2] \in DOMAIN objs[pl[1]].VertexData
        /\ objs[pl[1]].VertexData[pl[2]] = vd}

\* C37: the elements of an object that the Merge processor leaves are the
\* elements of all the objects that carried its material before, object
\* by object in their order and in the order they had in each; every
\* element of the document is in exactly one object afterwards, one of the
\* material of the object it was in, with its declarations as they were;
\* the numbers of faces, lines and points of the document are unchanged.
C37_ElementsKept ==
    [][MergeStep =>
        /\ \A k \in DOMAIN Objects' :
              LET same == SeqOfSet({i \in DOMAIN Objects :
                                      Objects[i].Material = Objects'[k].Material})
              IN Objects'[k].VertexData =
                    Flat([m \in DOMAIN same |-> Objects[same[m]].VertexData])
        /\ \A i \in DOMAIN Objects : \A e \in DOMAIN Objects[i].VertexData :
              /\ Cardinality(PlacesOf(Objects', Objects[i].VertexData[e])) = 1
              /\ \A pl \in PlacesOf(Objects', Objects[i].VertexData[e]) :
                    Objects'[pl[1]].Material = Objects[i].Material
        /\ \A t \in {Face, Line, Point} :
              NumOfType(Objects', t) = NumOfType(Objects, t)]_vars

\* A and C, of one material and two elements each, are one object of four
\* elements; B, of another material, stands after it with its element
C37_Witness ==
    /\ pc = "write"
    /\ Len(Objects) = 2
    /\ Objects[1].Name = "A C"
    /\ Len(Objects[1].VertexData) = 4
    /\ Objects[2].Name = "B"
    /\ Len(Objects[2].VertexData) = 1
    /\ NumOfType(Objects, Face) = 2
\* the positions of the lines of a written file that hold an element
ElementLines(lines) ==
    SeqOfSet({k \in DOMAIN lines : lines[k].t \in {Face, Line, Point}})

\* the smoothing group in effect at line k of a written file: the value of
\* the nearest smoothing-group line before it, "" if there is none
InEffect(lines, k) ==
    LET before == {j \in 1..(k - 1) : lines[j].t = SmoothingGroup}
    IN IF before = {} THEN ""
       ELSE word(lines[CHOOSE j \in before : \A i \in before : i <= j])

\* the smoothing group in effect at each element of the document objs when
\* it is written: the elements are written in the order of the document,
\* and an element is known by the Vertex index its first declaration was
\* parsed with
GroupsInEffect(vals, geom, objs) ==
    LET lines == WriteTo(vals, geom, objs, CHOOSE now \in Clock : TRUE)
        at == ElementLines(lines)
        written == Flat([o \in DOMAIN objs |-> objs[o].VertexData])
    IN {<<written[k].Decls[1].Vertex, InEffect(lines, at[k])>> : k \in DOMAIN written}

\* C38: the smoothing group in effect at an element in the written file is
\* the same whether the document is written as parse left it or after the
\* Merge processor.
C38_SmoothingKept ==
    [][MergeStep =>
          GroupsInEffect(values', Geometry', Objects')
              = GroupsInEffect(values, Geometry, Objects)]_vars
-----------------------------------------------------------------------------
(* properties of the parser: the Vertex index of a declaration, the        *)
(* components of a value                                                   *)

\* C39: in a document that parse returns without an error every
\* Declaration of every face, line and point has a Vertex index that is
\* not 0 and a pointer to the Vertex value of that index, a value of the
\* channel read before the element.
C39_VertexResolved ==
    pc \notin {"parse", "fatal"} =>
        \A d \in AllDecls :
            /\ d.Vertex # 0
            /\ d.RefVertex \in Range(Geometry[Vertex])
            /\ values[Vertex][d.RefVertex].Index = d.Vertex
\* the parts of the payload that hold a number: the tokens of the line
Tokens(parts) ==
    LET at == SeqOfSet({k \in DOMAIN parts : parts[k][1] # ""})
    IN [k \in DOMAIN at |-> parts[at[k]][1]]

\* the number a token stands for, a negative zero read as 0
NumberOf(token) ==
    ParseFloat(IF token = "-0" \/ token \in NegativeZeros THEN "0" ELSE token).value

\* the component k of the value gv
Component(gv, k) ==
    CASE k = 1 -> gv.X
      [] k = 2 -> gv.Y
      [] k = 3 -> gv.Z
      [] OTHER -> gv.W

\* C40: the k-th number of a geometry line is stored in the k-th component
\* of the value, x, y, z, w, however many spaces stand between the
\* numbers; a component without a number keeps its default, 0, or 1 for
\* the w of a Vertex.
C40_TokenOrder ==
    [][(GeometryStep /\ parser'.err = "") =>
          LET t == input'.t
              tokens == Tokens(input'.value)
              gv == values'[t][Geometry'[t][Len(Geometry'[t])]]
          IN \A k \in 1..4 :
                Component(gv, k) =
                    IF k <= Len(tokens) THEN NumberOf(tokens[k])
                    ELSE IF k = 4 /\ t = Vertex THEN 1 ELSE 0]_vars
=============================================================================
